---- MODULE Spec2Model ----
(***************************************************************************)
(* Model of crestron_xsig/server.py: the XSIG protocol engine              *)
(* (CrestronServer).  The asyncio event loop is modelled as interleaved    *)
(* atomic steps: one action runs a coroutine from one await to the next.   *)
(***************************************************************************)
EXTENDS Integers, Sequences, FiniteSets, TLC

(***************************************************************************)
(* Program constants.                                                      *)
(***************************************************************************)
MAX_DIGITAL_JOIN == 65535
MAX_ANALOG_JOIN == 65535
CMD_UPDATE_REQUEST == 253
CMD_CLEAR_OUTPUTS == 252
SYNC_ALL == 251
SERIAL_END == 255

(***************************************************************************)
(* Bit arithmetic on Python integers.  A negative left operand of & is     *)
(* taken in two's complement; every mask used by the code is below 2^24.   *)
(***************************************************************************)
RECURSIVE Pow2(_)
Pow2(k) == IF k = 0 THEN 1 ELSE 2 * Pow2(k - 1)

Shl(x, k) == x * Pow2(k)

Shr(x, k) == x \div Pow2(k)

Invert(x) == (0 - x) - 1

RECURSIVE NatAnd(_, _)
NatAnd(a, b) ==
    IF a = 0 \/ b = 0 THEN 0
    ELSE (IF a % 2 = 1 /\ b % 2 = 1 THEN 1 ELSE 0) + 2 * NatAnd(a \div 2, b \div 2)

RECURSIVE NatOr(_, _)
NatOr(a, b) ==
    IF a = 0 THEN b
    ELSE IF b = 0 THEN a
    ELSE (IF a % 2 = 1 \/ b % 2 = 1 THEN 1 ELSE 0) + 2 * NatOr(a \div 2, b \div 2)

BitAnd(a, mask) == NatAnd(a % Pow2(24), mask)

BitOr(a, b) == NatOr(a, b)

BoolInt(v) == IF v THEN 1 ELSE 0

(***************************************************************************)
(* struct.pack with format B: every item must be in 0..255, else           *)
(* struct.error is raised.                                                 *)
(***************************************************************************)
PackOk(bytes) == \A i \in 1..Len(bytes) : bytes[i] \in 0..255

(***************************************************************************)
(* UTF-8.  A string is a sequence of code points; the model's alphabet has *)
(* one-byte and two-byte code points (below 2048).                         *)
(***************************************************************************)
Utf8Char(cp) ==
    IF cp < 128 THEN <<cp>>
    ELSE <<192 + (cp \div 64), 128 + (cp % 64)>>

RECURSIVE Utf8Encode(_)
Utf8Encode(s) == IF s = <<>> THEN <<>> ELSE Utf8Char(Head(s)) \o Utf8Encode(Tail(s))

\* bytes.decode("utf-8"): [ok |-> FALSE] stands for UnicodeDecodeError.
RECURSIVE Utf8Decode(_)
Utf8Decode(bs) ==
    IF bs = <<>> THEN [ok |-> TRUE, s |-> <<>>]
    ELSE IF bs[1] < 128
         THEN LET r == Utf8Decode(Tail(bs))
              IN  [ok |-> r.ok, s |-> <<bs[1]>> \o r.s]
    ELSE IF bs[1] \in 194..223 /\ Len(bs) >= 2 /\ bs[2] \in 128..191
         THEN LET r == Utf8Decode(Tail(Tail(bs)))
              IN  [ok |-> r.ok, s |-> <<(bs[1] - 192) * 64 + (bs[2] - 128)>> \o r.s]
    ELSE [ok |-> FALSE, s |-> <<>>]

(***************************************************************************)
(* Frame encoding: the bytes handed to struct.pack by the send_command     *)
(* closures of set_digital, set_analog and set_serial.                     *)
(***************************************************************************)
EncodeDigital(join, value) ==
    << BitOr(BitOr(128, BitAnd(Shl(Invert(BoolInt(value)), 5), 32)), Shr(join - 1, 7)),
       BitAnd(join - 1, 127) >>

EncodeAnalog(join, value) ==
    << BitOr(BitOr(192, BitAnd(Shr(value, 10), 48)), Shr(join - 1, 7)),
       BitAnd(join - 1, 127),
       BitAnd(Shr(value, 7), 127),
       BitAnd(value, 127) >>

EncodeSerialHeader(join) ==
    << BitOr(200, Shr(join - 1, 7)), BitAnd(join - 1, 127) >>

EncodeSerial(join, string) ==
    EncodeSerialHeader(join) \o Utf8Encode(string) \o <<SERIAL_END>>

(***************************************************************************)
(* Frame decoding: the three branches of handle_connection.                *)
(***************************************************************************)
IsDigitalHeader(b0, b1) == BitAnd(b0, 192) = 128 /\ BitAnd(b1, 128) = 0

IsAnalogHeader(b0, b1) == BitAnd(b0, 200) = 192 /\ BitAnd(b1, 128) = 0

IsSerialHeader(b0, b1) == BitAnd(b0, 248) = 200 /\ BitAnd(b1, 128) = 0

FrameKind(b0, b1) ==
    IF IsDigitalHeader(b0, b1) THEN "d"
    ELSE IF IsAnalogHeader(b0, b1) THEN "a"
    ELSE IF IsSerialHeader(b0, b1) THEN "s"
    ELSE "none"

DecodeDigitalJoin(data) == BitOr(Shl(BitAnd(data[1], 31), 7), data[2]) + 1

DecodeDigitalValue(data) == BitAnd(Shr(Invert(data[1]), 5), 1) = 1

DecodeAnalogJoin(data) == BitOr(Shl(BitAnd(data[1], 7), 7), data[2]) + 1

DecodeAnalogValue(data) ==
    BitOr(BitOr(Shl(BitAnd(data[1], 48), 10), Shl(data[3], 7)), data[4])

DecodeSerialJoin(data) == BitOr(Shl(BitAnd(data[1], 7), 7), data[2]) + 1


(***************************************************************************)
(* Bounds of the model.  Time is counted in ticks of 100 ms; the rate      *)
(* limit and its window are scaled down (the code has 1000 updates per     *)
(* 10 ticks).                                                              *)
(***************************************************************************)
MaxItems == 2
MaxCalls == 1
MaxQueue == 2
MaxCodecCalls == 2
MaxFrames == 3
MaxRateCalls == 4
MaxApiCalls == 2
MaxTicks == 4
MAX_JOIN_UPDATES == 2
JOIN_UPDATE_WINDOW == 2
DEBOUNCE == 1
MAX_SERIAL_LEN == 2
MAX_CALLBACK_TIME == 1
MaxCallbacks == 2
MaxStops == 2
MaxStopItems == 1
MaxEchoItems == 4

\* the connections the listener accepts, in this order
Conns == 1..3

\* time.time() at construction: far from 0, the reset value of _last_sync_request.
Epoch == JOIN_UPDATE_WINDOW + DEBOUNCE + 1

VARIABLES
    _server,                 \* self._server is not None (the listener exists)
    _writer,                 \* 0 for None, else the connection whose writer it is
    _available,
    _command_event,
    _initial_sync_received,
    _last_sync_request,
    _digital, _analog, _serial,
    _join_update_times,
    _command_queue,
    _connection_lock,        \* threading.Lock: TRUE while held
    cmd_pc, cmd_cur,         \* _process_command_queue: position, command in execution
    h_pc, h_data,            \* handle_connection per connection: position, local data
    h_exit,                  \* why the read loop of a connection ended
    stop_pc, stop_t,         \* stop(): position of the call in progress, sleep start
    loop_blocked,            \* the event loop thread waits for a threading.Lock
    sock,                    \* transport of each connection: "none", "open", "closed"
    inbuf,                   \* bytes sent by the peer and not yet read
    peer_closed,             \* the peer has closed its side (EOF after inbuf)
    outbuf,                  \* bytes the server wrote, each with its origin
    now,                     \* time.time() in ticks
    sys_events,              \* "system" notifications dispatched, by origin
    fb_seen,                 \* per connection: 0xFB bytes read by its handler
    cmd_log,                 \* commands enqueued, written, skipped, failed, completed
    sent, decoded,           \* per connection: frames sent by the peer, frames decoded
    admitted,                \* per join-id: the times of all admitted set_* calls
    n_items, n_calls, n_stops,
    last_call,               \* the last set_* call and its outcome; rejects counts
                             \* the calls refused by the rate limit so far
    _join_callbacks,         \* join-id -> the callbacks registered for it
    _callback_lock,          \* threading.Lock: TRUE while held
    _sync_all_joins_callback,\* a sync-all hook is registered
    notes,                   \* the notifications dispatched to at least one callback
    cb_tasks,                \* the tasks created for asynchronous callbacks
    hook_calls               \* per connection: invocations of the sync-all hook

vars == << _server, _writer, _available, _command_event, _initial_sync_received,
           _last_sync_request, _digital, _analog, _serial, _join_update_times,
           _command_queue, _connection_lock, cmd_pc, cmd_cur, h_pc, h_data, h_exit, stop_pc,
           stop_t, loop_blocked, sock, inbuf, peer_closed, outbuf, now, sys_events, fb_seen,
           cmd_log, sent, decoded, admitted, n_items, n_calls, n_stops, last_call,
           _join_callbacks, _callback_lock, _sync_all_joins_callback, notes, cb_tasks,
           hook_calls >>

(***************************************************************************)
(* Python values held by a JoinState: bool, int or str.  == between a bool *)
(* and an int compares numbers (False == 0); a str equals only a str.      *)
(***************************************************************************)
PyBool(b) == [t |-> "bool", n |-> BoolInt(b), s |-> <<>>]

PyInt(i) == [t |-> "int", n |-> i, s |-> <<>>]

PyStr(str) == [t |-> "str", n |-> 0, s |-> str]

\* None, returned by get_analog
PyNone == [t |-> "none", n |-> 0, s |-> <<>>]

\* truth value of a Python value, as tested by "or"
Truthy(x) == IF x.t = "str" THEN x.s # <<>> ELSE x.n # 0

\* x or y
PyOr(x, y) == IF Truthy(x) THEN x ELSE y

PyEq(x, y) ==
    IF x.t = "str" \/ y.t = "str"
    THEN x.t = y.t /\ x.s = y.s
    ELSE x.n = y.n

\* str(i) for i >= 0: the code points of the decimal digits
RECURSIVE Str(_)
Str(i) == IF i < 10 THEN << 48 + i >> ELSE Str(i \div 10) \o << 48 + (i % 10) >>

\* lines 405, 432 and 452: the argument the handler passes to the callbacks,
\* "1" or "0" for a digital value, str(value) for an analog one
Notified(x) ==
    CASE x.t = "bool" -> PyStr(IF x.n = 1 THEN << 49 >> ELSE << 48 >>)
      [] x.t = "int" -> PyStr(Str(x.n))
      [] OTHER -> x

\* JoinState.__init__
JoinState == [value |-> PyBool(FALSE), last_update |-> 0, update_count |-> 0]

\* a table that still holds the entry of join 1
StaleTable == [j \in { 1 } |-> JoinState]

\* defaultdict(JoinState) after clear()
EmptyTable == [j \in {} |-> JoinState]

\* defaultdict(JoinState)[join]: the entry, created when missing
Lookup(table, join) == IF join \in DOMAIN table THEN table[join] ELSE JoinState

Store(table, join, state) ==
    [j \in DOMAIN table \cup {join} |-> IF j = join THEN state ELSE table[j]]

Touch(table, join) == Store(table, join, Lookup(table, join))

Updated(table, join, value) ==
    Store(table, join, [value |-> value, last_update |-> now,
                        update_count |-> Lookup(table, join).update_count + 1])

\* CrestronServer.available
available ==
    /\ _available
    /\ _writer # 0
    /\ sock[_writer] # "closed"


(***************************************************************************)
(* Variable groups.                                                        *)
(***************************************************************************)
tables == << _digital, _analog, _serial >>

sync_vars == << _initial_sync_received, _last_sync_request >>

cmd_vars == << cmd_pc, cmd_cur >>

call_vars == << _join_update_times, admitted, n_calls, last_call >>

peer_vars == << inbuf, peer_closed, sent, n_items >>

stop_vars == << _server, _connection_lock, stop_pc, stop_t, loop_blocked, n_stops >>

dispatch_vars == << _join_callbacks, _callback_lock, notes, cb_tasks >>

hook_vars == << _sync_all_joins_callback, hook_calls >>

cb_vars == << dispatch_vars, hook_vars >>

(***************************************************************************)
(* A write to the transport of connection c, as recorded in outbuf: who    *)
(* wrote, the bytes, the frame they encode, and whether c had already      *)
(* delivered a 0xFB to its handler.                                        *)
(***************************************************************************)
NoFrame == [k |-> "raw", j |-> 0, v |-> PyBool(FALSE)]

FrameOf(cmd) == [k |-> cmd.k, j |-> cmd.join, v |-> cmd.value]

Written(origin, c, bytes, frame) ==
    [by |-> origin, bytes |-> bytes, frame |-> frame, synced |-> fb_seen[c] > 0]

(***************************************************************************)
(* _notify_callbacks("system", event): the dispatch, recorded by origin.   *)
(***************************************************************************)
NotifySystemFrom(c, event) ==
    sys_events' = [sys_events EXCEPT !.conn[c] = Append(@, event)]

(***************************************************************************)
(* Callbacks.  A callback is known by what it does when called:            *)
(*   "ok", "late"   synchronous, returns                                   *)
(*   "raises"       synchronous, raises                                    *)
(*   "registers"    synchronous, registers "late" for the same join-id     *)
(*   "unregisters"  synchronous, calls its own unregister function         *)
(*   "co_ok"        coroutine function: awaits once, then returns          *)
(*   "co_raises"    coroutine function: raises in its first step           *)
(*   "co_set"       coroutine function: awaits set_digital, then returns   *)
(* A join-id is written << kind, join >>.                                  *)
(***************************************************************************)
\* everything but h_pc, loop_blocked and the callback variables
plain_vars == << _server, _writer, _available, _command_event, sync_vars, tables,
                 _command_queue, _connection_lock, cmd_vars, h_data, h_exit, stop_pc,
                 stop_t, sock, peer_vars, outbuf, now, sys_events, fb_seen, cmd_log,
                 decoded, call_vars, n_stops >>

\* asyncio.iscoroutinefunction(callback)
iscoroutinefunction(cb) == cb \in { "co_ok", "co_raises", "co_set" }

\* the callback calls register_callback or its unregister function
TakesCallbackLock(cb) == cb \in { "registers", "unregisters" }

CallbacksOf(registry, join_id) ==
    IF join_id \in DOMAIN registry THEN registry[join_id] ELSE {}

\* lines 547-549
Registered(registry, join_id, cb) ==
    [i \in DOMAIN registry \cup { join_id } |->
        CallbacksOf(registry, i) \cup (IF i = join_id THEN { cb } ELSE {})]

\* lines 556-559: discard; the join-id is deleted with its last callback
Unregistered(registry, join_id, cb) ==
    LET rest == CallbacksOf(registry, join_id) \ { cb }
        keys == IF rest = {} THEN DOMAIN registry \ { join_id } ELSE DOMAIN registry
    IN  [i \in keys |-> IF i = join_id THEN rest ELSE registry[i]]

\* a dispatch that keeps _callback_lock until it returns
HoldsCallbackLockThroughout(stage) == stage \in { "snapshot", "invoke", "wait" }

\* lines 584-590: the with block ends before the first callback is called
HoldsCallbackLock(stage) == stage = "snapshot"

\* what a synchronous callback called for join_id does to the registry
CallbackEffect(cb, join_id, registry) ==
    CASE cb = "registers" -> Registered(registry, join_id, "late")
      [] cb = "unregisters" -> Unregistered(registry, join_id, cb)
      [] OTHER -> registry

NoDispatch(registry) ==
    [registry |-> registry, invoked |-> << >>, tasks |-> << >>, blocked |-> FALSE]

\* lines 595-606: one turn of the loop over the snapshot
Invoke(cb, join_id, run) ==
    IF iscoroutinefunction(cb)
    THEN [run EXCEPT !.tasks = Append(@, cb)]
    ELSE IF TakesCallbackLock(cb) /\ HoldsCallbackLock("invoke")
    THEN [run EXCEPT !.blocked = TRUE]
    ELSE [run EXCEPT !.invoked = Append(@, cb),
                     !.registry = CallbackEffect(cb, join_id, @)]

\* a loop that a raising callback leaves
RECURSIVE RunCallbacksUntilRaise(_, _, _)
RunCallbacksUntilRaise(callbacks, join_id, run) ==
    IF callbacks = << >> \/ run.blocked THEN run
    ELSE IF Head(callbacks) = "raises" THEN Invoke(Head(callbacks), join_id, run)
    ELSE RunCallbacksUntilRaise(Tail(callbacks), join_id,
                                Invoke(Head(callbacks), join_id, run))

\* lines 594-606: the loop over the snapshot; the except is inside the loop
RECURSIVE RunCallbacks(_, _, _)
RunCallbacks(callbacks, join_id, run) ==
    IF callbacks = << >> \/ run.blocked THEN run
    ELSE RunCallbacks(Tail(callbacks), join_id, Invoke(Head(callbacks), join_id, run))

\* list(set): the elements in some order
Orders(S) ==
    { f \in [1..Cardinality(S) -> S] :
        \A i, j \in 1..Cardinality(S) : i # j => f[i] # f[j] }

NewTasks(n, cbs) ==
    [i \in 1..Len(cbs) |-> [note |-> n, cb |-> cbs[i], state |-> "pending", n0 |-> 0]]

\* lines 578-611 for a join-id, called by the handler of c: the snapshot, the
\* loop, and the await of the tasks when there are any
_notify_callbacks(c, join_id, value) ==
    \E callbacks \in Orders(CallbacksOf(_join_callbacks, join_id)) :
       LET run == RunCallbacks(callbacks, join_id, NoDispatch(_join_callbacks))
           waits == run.tasks # << >> /\ ~run.blocked
           note == [by |-> c, join_id |-> join_id, value |-> value, t |-> now,
                    synced |-> fb_seen[c] > 0,
                    registered |-> CallbacksOf(_join_callbacks, join_id),
                    invoked |-> run.invoked,
                    state |-> IF run.blocked THEN "blocked"
                              ELSE IF waits THEN "waiting" ELSE "returned"]
       IN  /\ _join_callbacks' = run.registry
           /\ loop_blocked' = run.blocked
           /\ _callback_lock' = (run.blocked \/ (waits /\ HoldsCallbackLock("wait")))
           /\ notes' = IF callbacks = << >> THEN notes ELSE Append(notes, note)
           /\ cb_tasks' = cb_tasks \o NewTasks(Len(notes) + 1, run.tasks)
           /\ h_pc' = [h_pc EXCEPT ![c] = IF waits \/ run.blocked THEN "notify" ELSE "read"]

\* no notification in this step
NoNotify == UNCHANGED << dispatch_vars, loop_blocked >>

TasksOf(n) == { i \in DOMAIN cb_tasks : cb_tasks[i].note = n }

\* the notification the handler of c is waiting in
Waiting(c) == CHOOSE n \in DOMAIN notes : notes[n].by = c /\ notes[n].state = "waiting"

\* lines 609-615: wait_for(gather(*tasks), MAX_CALLBACK_TIME) returns when all
\* tasks are done, raises what the first failing task raised, or cancels the
\* gather, and with it every unfinished task, when the timeout expires
_notify_callbacks_return(c) ==
    /\ ~loop_blocked
    /\ h_pc[c] = "notify"
    /\ LET n == Waiting(c)
           states == { cb_tasks[i].state : i \in TasksOf(n) }
       IN  /\ "pending" \notin states
           /\ \/ /\ "raised" \in states
                 /\ notes' = [notes EXCEPT ![n].state = "error"]
                 /\ UNCHANGED cb_tasks
              \/ /\ states = { "done" }
                 /\ notes' = [notes EXCEPT ![n].state = "returned"]
                 /\ UNCHANGED cb_tasks
              \/ /\ "raised" \notin states
                 /\ "running" \in states
                 /\ now - notes[n].t >= MAX_CALLBACK_TIME
                 /\ notes' = [notes EXCEPT ![n].state = "timeout"]
                 /\ cb_tasks' = [i \in DOMAIN cb_tasks |->
                                   IF i \in TasksOf(n) /\ cb_tasks[i].state = "running"
                                   THEN [cb_tasks[i] EXCEPT !.state = "cancelled"]
                                   ELSE cb_tasks[i]]
    /\ h_pc' = [h_pc EXCEPT ![c] = "read"]
    /\ _callback_lock' = FALSE
    /\ UNCHANGED << plain_vars, loop_blocked, _join_callbacks, hook_vars >>

\* the first step of a task, in the order the tasks were created
callback_start(i) ==
    /\ ~loop_blocked
    /\ cb_tasks[i].state = "pending"
    /\ \A k \in DOMAIN cb_tasks : k < i => cb_tasks[k].state # "pending"
    /\ cb_tasks' = [cb_tasks EXCEPT
                      ![i].state = IF cb_tasks[i].cb = "co_raises" THEN "raised"
                                   ELSE "running",
                      ![i].n0 = n_calls]
    /\ notes' = [notes EXCEPT ![cb_tasks[i].note].invoked = Append(@, cb_tasks[i].cb)]
    /\ UNCHANGED << plain_vars, h_pc, loop_blocked, _join_callbacks, _callback_lock,
                    hook_vars >>

\* the callback is inside its await of set_digital
CallsSet(i) ==
    /\ cb_tasks[i].cb = "co_set"
    /\ cb_tasks[i].state = "running"
    /\ cb_tasks[i].n0 = n_calls

\* the last step of a task: its await is over and the callback returns, or the
\* ConnectionError of set_digital leaves it
callback_finish(i) ==
    /\ ~loop_blocked
    /\ cb_tasks[i].state = "running"
    /\ cb_tasks[i].cb = "co_set" => n_calls > cb_tasks[i].n0
    /\ cb_tasks' = [cb_tasks EXCEPT
                      ![i].state = IF cb_tasks[i].cb = "co_set" /\ last_call.result # "ok"
                                   THEN "raised" ELSE "done"]
    /\ UNCHANGED << plain_vars, h_pc, loop_blocked, _join_callbacks, _callback_lock,
                    notes, hook_vars >>

\* lines 540-549
register_callback(join_id, cb) ==
    /\ ~loop_blocked
    /\ IF _callback_lock
       THEN /\ loop_blocked' = TRUE
            /\ UNCHANGED _join_callbacks
       ELSE /\ _join_callbacks' = Registered(_join_callbacks, join_id, cb)
            /\ UNCHANGED loop_blocked
    /\ UNCHANGED << plain_vars, h_pc, _callback_lock, notes, cb_tasks, hook_vars >>

\* lines 551-559: the function register_callback returned
unregister(join_id, cb) ==
    /\ ~loop_blocked
    /\ IF _callback_lock
       THEN /\ loop_blocked' = TRUE
            /\ UNCHANGED _join_callbacks
       ELSE /\ _join_callbacks' = Unregistered(_join_callbacks, join_id, cb)
            /\ UNCHANGED loop_blocked
    /\ UNCHANGED << plain_vars, h_pc, _callback_lock, notes, cb_tasks, hook_vars >>

\* lines 729-732
register_sync_all_joins_callback ==
    /\ ~loop_blocked
    /\ _sync_all_joins_callback' = TRUE
    /\ UNCHANGED << plain_vars, h_pc, loop_blocked, dispatch_vars, hook_calls >>

\* lines 348-349: the hook, when one is registered, is awaited
SyncAllJoins(c) ==
    hook_calls' = [hook_calls EXCEPT ![c] = IF _sync_all_joins_callback THEN @ + 1 ELSE @]

(***************************************************************************)
(* handle_connection, one action per stretch between two awaits.           *)
(* Positions: idle (not accepted), drain0, read, fb_followup, read2,       *)
(* read_analog, read_serial, notify, cleanup, closing, done.               *)
(***************************************************************************)
AtEof(c) == inbuf[c] = <<>> /\ (peer_closed[c] \/ sock[c] = "closed")

\* lines 455-460 and 462-467: connected = False, unavailable, notify
handle_connection_lost(c, why) ==
    /\ h_exit' = [h_exit EXCEPT ![c] = why]
    /\ _available' = FALSE
    /\ _command_event' = FALSE
    /\ NotifySystemFrom(c, "disconnected")
    /\ h_pc' = [h_pc EXCEPT ![c] = "cleanup"]
    /\ h_data' = [h_data EXCEPT ![c] = <<>>]

\* lines 297-315: a connection is accepted and its handler starts
handle_connection_accept(c) ==
    /\ ~loop_blocked
    /\ _server = "listening"
    /\ h_pc[c] = "idle"
    /\ \A b \in Conns : b < c => h_pc[b] # "idle"
    /\ _writer' = c
    /\ sock' = [sock EXCEPT ![c] = "open"]
    /\ _initial_sync_received' = FALSE
    /\ _last_sync_request' = 0
    /\ _digital' = EmptyTable
    /\ _analog' = EmptyTable
    /\ _serial' = EmptyTable
    /\ outbuf' = [outbuf EXCEPT ![c] =
                    Append(@, Written("handler", c, <<CMD_UPDATE_REQUEST>>, NoFrame))]
    /\ h_pc' = [h_pc EXCEPT ![c] = "drain0"]
    /\ UNCHANGED << cb_vars, _available, _command_event, _join_update_times, _command_queue,
                    cmd_vars, h_data, h_exit, stop_vars, peer_vars, now, sys_events, fb_seen, cmd_log,
                    decoded, admitted, n_calls, last_call >>

\* line 315: the drain of the initial update request returns, or raises on a
\* closed transport (outer except, line 469: no notification)
handle_connection_drain0(c) ==
    /\ ~loop_blocked
    /\ h_pc[c] = "drain0"
    /\ h_pc' = [h_pc EXCEPT ![c] = IF sock[c] = "closed" THEN "cleanup" ELSE "read"]
    /\ h_exit' = [h_exit EXCEPT ![c] = IF sock[c] = "closed" THEN "raised" ELSE @]
    /\ UNCHANGED << cb_vars, _server, _writer, _available, _command_event, sync_vars, tables,
                    _join_update_times, _command_queue, _connection_lock, cmd_vars,
                    h_data, stop_pc, stop_t, loop_blocked, sock, peer_vars, outbuf, now,
                    sys_events, fb_seen, cmd_log, decoded, admitted, n_calls, n_stops, last_call >>

\* lines 321-349: read(1) returns a byte, or b"" at EOF
handle_connection_read(c) ==
    /\ ~loop_blocked
    /\ h_pc[c] = "read"
    /\ IF inbuf[c] # <<>>
       THEN /\ inbuf' = [inbuf EXCEPT ![c] = Tail(@)]
            /\ IF Head(inbuf[c]) = SYNC_ALL
               THEN /\ fb_seen' = [fb_seen EXCEPT ![c] = @ + 1]
                    /\ UNCHANGED << h_data, h_exit >>
                    /\ IF now - _last_sync_request > DEBOUNCE
                       THEN /\ _last_sync_request' = now
                            /\ IF ~_initial_sync_received
                               THEN /\ _initial_sync_received' = TRUE
                                    /\ _available' = TRUE
                                    /\ _command_event' = TRUE
                                    /\ NotifySystemFrom(c, "connected")
                                    /\ h_pc' = [h_pc EXCEPT ![c] = "fb_followup"]
                                    /\ UNCHANGED hook_calls
                               ELSE /\ SyncAllJoins(c)
                                    /\ UNCHANGED << _initial_sync_received, _available,
                                                    _command_event, sys_events, h_pc >>
                       ELSE UNCHANGED << sync_vars, _available, _command_event,
                                         sys_events, h_pc, hook_calls >>
               ELSE /\ h_data' = [h_data EXCEPT ![c] = << Head(inbuf[c]) >>]
                    /\ h_exit' = h_exit
                    /\ h_pc' = [h_pc EXCEPT ![c] = "read2"]
                    /\ UNCHANGED << sync_vars, _available, _command_event, sys_events,
                                    fb_seen, hook_calls >>
       ELSE /\ AtEof(c)
            /\ handle_connection_lost(c, "eof")
            /\ UNCHANGED << inbuf, sync_vars, fb_seen, hook_calls >>
    /\ UNCHANGED << dispatch_vars, _sync_all_joins_callback, _server, _writer, tables, _join_update_times, _command_queue,
                    _connection_lock, cmd_vars, stop_pc, stop_t, loop_blocked, sock,
                    peer_closed, sent, n_items, outbuf, now, cmd_log, decoded, admitted,
                    n_calls, n_stops, last_call >>

\* lines 342-349: after the "connected" dispatch, the follow-up update request
\* and, once its drain has returned, the sync-all hook
handle_connection_followup(c) ==
    /\ ~loop_blocked
    /\ h_pc[c] = "fb_followup"
    /\ outbuf' = [outbuf EXCEPT ![c] =
                    Append(@, Written("handler", c, <<CMD_UPDATE_REQUEST>>, NoFrame))]
    /\ IF sock[c] = "closed"
       THEN /\ handle_connection_lost(c, "error")
            /\ UNCHANGED hook_calls
       ELSE /\ h_pc' = [h_pc EXCEPT ![c] = "read"]
            /\ SyncAllJoins(c)
            /\ UNCHANGED << _available, _command_event, sys_events, h_data, h_exit >>
    /\ UNCHANGED << dispatch_vars, _sync_all_joins_callback, _server, _writer, sync_vars, tables, _join_update_times,
                    _command_queue, _connection_lock, cmd_vars, stop_pc, stop_t, loop_blocked,
                    sock, peer_vars, now, fb_seen, cmd_log, decoded, admitted, n_calls, n_stops,
                    last_call >>


Decoded(c, kind, join, value) ==
    decoded' = [decoded EXCEPT ![c] = Append(@, [k |-> kind, j |-> join, v |-> value])]

\* a digital branch that stores only a value that differs
UpdateDigitalIfChanged(join, value) ==
    /\ _digital' = IF ~PyEq(Lookup(_digital, join).value, PyBool(value))
                   THEN Updated(_digital, join, PyBool(value))
                   ELSE Touch(_digital, join)
    /\ UNCHANGED << _analog, _serial >>

\* lines 385-388: the digital branch stores unconditionally
UpdateDigital(join, value) ==
    /\ _digital' = Updated(_digital, join, PyBool(value))
    /\ UNCHANGED << _analog, _serial >>

\* lines 427-431: the analog branch stores when the value differs
UpdateAnalog(join, value) ==
    /\ _analog' = IF ~PyEq(Lookup(_analog, join).value, PyInt(value))
                  THEN Updated(_analog, join, PyInt(value))
                  ELSE Touch(_analog, join)
    /\ UNCHANGED << _digital, _serial >>

\* lines 447-451: the serial branch stores when the string differs
UpdateSerial(join, string) ==
    /\ _serial' = IF ~PyEq(Lookup(_serial, join).value, PyStr(string))
                  THEN Updated(_serial, join, PyStr(string))
                  ELSE Touch(_serial, join)
    /\ UNCHANGED << _digital, _analog >>

\* lines 352-441: the second header byte is read and the frame kind decided
handle_connection_read2(c) ==
    /\ ~loop_blocked
    /\ h_pc[c] = "read2"
    /\ IF inbuf[c] # <<>>
       THEN LET data == Append(h_data[c], Head(inbuf[c]))
                kind == FrameKind(data[1], data[2])
            IN  /\ inbuf' = [inbuf EXCEPT ![c] = Tail(@)]
                /\ UNCHANGED << _available, _command_event, sys_events >>
                /\ CASE kind = "d" ->
                          /\ UpdateDigital(DecodeDigitalJoin(data), DecodeDigitalValue(data))
                          /\ Decoded(c, "d", DecodeDigitalJoin(data),
                                     PyBool(DecodeDigitalValue(data)))
                          /\ h_data' = [h_data EXCEPT ![c] = <<>>]
                          /\ h_exit' = h_exit
                          /\ _notify_callbacks(c, << "d", DecodeDigitalJoin(data) >>,
                                               Notified(PyBool(DecodeDigitalValue(data))))
                     [] kind = "a" ->
                          /\ h_data' = [h_data EXCEPT ![c] = data]
                          /\ h_exit' = h_exit
                          /\ h_pc' = [h_pc EXCEPT ![c] = "read_analog"]
                          /\ NoNotify
                          /\ UNCHANGED << tables, decoded >>
                     [] kind = "s" ->
                          /\ h_data' = [h_data EXCEPT ![c] = data]
                          /\ h_exit' = h_exit
                          /\ h_pc' = [h_pc EXCEPT ![c] = "read_serial"]
                          /\ NoNotify
                          /\ UNCHANGED << tables, decoded >>
                     [] OTHER ->
                          /\ h_data' = [h_data EXCEPT ![c] = <<>>]
                          /\ h_exit' = h_exit
                          /\ h_pc' = [h_pc EXCEPT ![c] = "read"]
                          /\ NoNotify
                          /\ UNCHANGED << tables, decoded >>
       ELSE \* read(1) returned b"": data[1] raises IndexError (line 462)
            /\ AtEof(c)
            /\ handle_connection_lost(c, "error")
            /\ NoNotify
            /\ UNCHANGED << inbuf, tables, decoded >>
    /\ UNCHANGED << hook_vars, _server, _writer, sync_vars, _join_update_times, _command_queue,
                    _connection_lock, cmd_vars, stop_pc, stop_t, sock,
                    peer_closed, sent, n_items, outbuf, now, fb_seen, cmd_log, admitted,
                    n_calls, n_stops, last_call >>

\* lines 419-434: read(2) returns the k bytes that have arrived, 1 <= k <= 2,
\* or b"" at EOF; struct.unpack("BBBB") raises unless data holds 4 bytes
handle_connection_read_analog(c) ==
    /\ ~loop_blocked
    /\ h_pc[c] = "read_analog"
    /\ IF inbuf[c] # <<>>
       THEN \E k \in 1..2 :
              /\ k <= Len(inbuf[c])
              /\ LET data == h_data[c] \o SubSeq(inbuf[c], 1, k)
                 IN  /\ inbuf' = [inbuf EXCEPT ![c] = SubSeq(@, k + 1, Len(@))]
                     /\ IF Len(data) = 4
                        THEN /\ UpdateAnalog(DecodeAnalogJoin(data), DecodeAnalogValue(data))
                             /\ Decoded(c, "a", DecodeAnalogJoin(data),
                                        PyInt(DecodeAnalogValue(data)))
                             /\ h_data' = [h_data EXCEPT ![c] = <<>>]
                             /\ h_exit' = h_exit
                             /\ IF ~PyEq(Lookup(_analog, DecodeAnalogJoin(data)).value,
                                         PyInt(DecodeAnalogValue(data)))
                                THEN _notify_callbacks(c, << "a", DecodeAnalogJoin(data) >>,
                                                       Notified(PyInt(DecodeAnalogValue(data))))
                                ELSE /\ h_pc' = [h_pc EXCEPT ![c] = "read"]
                                     /\ NoNotify
                             /\ UNCHANGED << _available, _command_event, sys_events >>
                        ELSE /\ handle_connection_lost(c, "error")
                             /\ NoNotify
                             /\ UNCHANGED << tables, decoded >>
       ELSE /\ AtEof(c)
            /\ handle_connection_lost(c, "error")
            /\ NoNotify
            /\ UNCHANGED << inbuf, tables, decoded >>
    /\ UNCHANGED << hook_vars, _server, _writer, sync_vars, _join_update_times, _command_queue,
                    _connection_lock, cmd_vars, stop_pc, stop_t, sock,
                    peer_closed, sent, n_items, outbuf, now, fb_seen, cmd_log, admitted,
                    n_calls, n_stops, last_call >>

RECURSIVE IndexOf(_, _, _)
IndexOf(bytes, b, i) ==
    IF i > Len(bytes) THEN 0
    ELSE IF bytes[i] = b THEN i
    ELSE IndexOf(bytes, b, i + 1)

\* lines 441-454: readuntil(b"\xff") returns through the first 0xFF, or raises
\* IncompleteReadError at EOF; decode("utf-8") may raise
handle_connection_read_serial(c) ==
    /\ ~loop_blocked
    /\ h_pc[c] = "read_serial"
    /\ LET end == IndexOf(inbuf[c], SERIAL_END, 1)
           text == Utf8Decode(SubSeq(inbuf[c], 1, end - 1))
       IN  IF end > 0
           THEN /\ inbuf' = [inbuf EXCEPT ![c] = SubSeq(@, end + 1, Len(@))]
                /\ IF text.ok
                   THEN /\ UpdateSerial(DecodeSerialJoin(h_data[c]), text.s)
                        /\ Decoded(c, "s", DecodeSerialJoin(h_data[c]), PyStr(text.s))
                        /\ h_data' = [h_data EXCEPT ![c] = <<>>]
                        /\ h_exit' = h_exit
                        /\ IF ~PyEq(Lookup(_serial, DecodeSerialJoin(h_data[c])).value,
                                    PyStr(text.s))
                           THEN _notify_callbacks(c, << "s", DecodeSerialJoin(h_data[c]) >>,
                                                  PyStr(text.s))
                           ELSE /\ h_pc' = [h_pc EXCEPT ![c] = "read"]
                                /\ NoNotify
                        /\ UNCHANGED << _available, _command_event, sys_events >>
                   ELSE /\ handle_connection_lost(c, "error")
                        /\ NoNotify
                        /\ UNCHANGED << tables, decoded >>
           ELSE /\ peer_closed[c] \/ sock[c] = "closed"
                /\ inbuf' = [inbuf EXCEPT ![c] = <<>>]
                /\ handle_connection_lost(c, "error")
                /\ NoNotify
                /\ UNCHANGED << tables, decoded >>
    /\ UNCHANGED << hook_vars, _server, _writer, sync_vars, _join_update_times, _command_queue,
                    _connection_lock, cmd_vars, stop_pc, stop_t, sock,
                    peer_closed, sent, n_items, outbuf, now, fb_seen, cmd_log, admitted,
                    n_calls, n_stops, last_call >>

\* lines 479-485: the tail of the finally block
handle_connection_finally(c) ==
    /\ _writer' = 0
    /\ _available' = FALSE
    /\ _command_event' = FALSE
    /\ _initial_sync_received' = FALSE
    /\ NotifySystemFrom(c, "disconnected")
    /\ h_pc' = [h_pc EXCEPT ![c] = "done"]

\* lines 471-476: the finally block closes whatever self._writer is now
handle_connection_cleanup(c) ==
    /\ ~loop_blocked
    /\ h_pc[c] = "cleanup"
    /\ IF _writer # 0
       THEN /\ sock' = [sock EXCEPT ![_writer] = "closed"]
            /\ h_pc' = [h_pc EXCEPT ![c] = "closing"]
            /\ UNCHANGED << _writer, _available, _command_event,
                            _initial_sync_received, sys_events >>
       ELSE /\ handle_connection_finally(c)
            /\ UNCHANGED sock
    /\ UNCHANGED << cb_vars, _server, _last_sync_request, tables, _join_update_times,
                    _command_queue, _connection_lock, cmd_vars, h_data, h_exit, stop_pc, stop_t,
                    loop_blocked, peer_vars, outbuf, now, fb_seen, cmd_log, decoded, admitted,
                    n_calls, n_stops, last_call >>

\* lines 476-485: wait_closed() has returned
handle_connection_closed(c) ==
    /\ ~loop_blocked
    /\ h_pc[c] = "closing"
    /\ handle_connection_finally(c)
    /\ UNCHANGED << cb_vars, _server, _last_sync_request, tables, _join_update_times,
                    _command_queue, _connection_lock, cmd_vars, h_data, h_exit, stop_pc, stop_t,
                    loop_blocked, sock, peer_vars, outbuf, now, fb_seen, cmd_log, decoded,
                    admitted, n_calls, n_stops, last_call >>


(***************************************************************************)
(* Outbound commands: the send_command closures.  w is the connection      *)
(* whose writer self._writer was when the command was created.             *)
(***************************************************************************)
NoCommand == [k |-> "none", join |-> 0, value |-> PyBool(FALSE), w |-> 0]

Command(kind, join, value) == [k |-> kind, join |-> join, value |-> value, w |-> _writer]

\* the items handed to struct.pack, then the payload
CommandHeader(cmd) ==
    CASE cmd.k = "d" -> EncodeDigital(cmd.join, cmd.value.n = 1)
      [] cmd.k = "a" -> EncodeAnalog(cmd.join, cmd.value.n)
      [] cmd.k = "s" -> EncodeSerialHeader(cmd.join)

CommandBytes(cmd) ==
    IF cmd.k = "s" THEN EncodeSerial(cmd.join, cmd.value.s) ELSE CommandHeader(cmd)

\* no state update after the drain
CommandStoreNone(cmd) == UNCHANGED tables

\* a state update that also stores the value of a digital command
CommandStoreAll(cmd) ==
    CASE cmd.k = "d" -> /\ _digital' = Updated(_digital, cmd.join, cmd.value)
                        /\ UNCHANGED << _analog, _serial >>
      [] cmd.k = "a" -> /\ _analog' = Updated(_analog, cmd.join, cmd.value)
                        /\ UNCHANGED << _digital, _serial >>
      [] cmd.k = "s" -> /\ _serial' = Updated(_serial, cmd.join, cmd.value)
                        /\ UNCHANGED << _digital, _analog >>

\* lines 528-532 and 717-721: the state update that follows the drain
CommandStore(cmd) ==
    CASE cmd.k = "a" -> /\ _analog' = Updated(_analog, cmd.join, cmd.value)
                        /\ UNCHANGED << _digital, _serial >>
      [] cmd.k = "s" -> /\ _serial' = Updated(_serial, cmd.join, cmd.value)
                        /\ UNCHANGED << _digital, _analog >>
      [] OTHER -> UNCHANGED tables

\* a queue that hands out the newest command first
QueuePutFront(queue, cmd) == << cmd >> \o queue

\* asyncio.Queue: put appends, get takes the head
QueuePut(queue, cmd) == Append(queue, cmd)

(***************************************************************************)
(* _process_command_queue.  Positions: none (no task), top, wait, get,     *)
(* drain, done (cancelled).                                                *)
(***************************************************************************)
\* lines 279-285: the command raised
command_failed ==
    /\ IF _available
       THEN /\ _available' = FALSE
            /\ _command_event' = FALSE
            /\ sys_events' = [sys_events EXCEPT !.cmd = @ + 1]
       ELSE UNCHANGED << _available, _command_event, sys_events >>
    /\ cmd_pc' = "top"
    /\ cmd_cur' = NoCommand

\* lines 259-260
_process_command_queue_top ==
    /\ ~loop_blocked
    /\ cmd_pc = "top"
    /\ cmd_pc' = IF ~available /\ ~_command_event THEN "wait" ELSE "get"
    /\ UNCHANGED << cb_vars, _server, _writer, _available, _command_event, sync_vars, tables,
                    _join_update_times, _command_queue, _connection_lock, cmd_cur,
                    h_pc, h_data, h_exit, stop_pc, stop_t, loop_blocked, sock, peer_vars,
                    outbuf, now, sys_events, fb_seen, cmd_log, decoded, admitted, n_calls,
                    n_stops, last_call >>

\* line 260: _command_event.wait() returns
_process_command_queue_wake ==
    /\ ~loop_blocked
    /\ cmd_pc = "wait"
    /\ _command_event
    /\ cmd_pc' = "get"
    /\ UNCHANGED << cb_vars, _server, _writer, _available, _command_event, sync_vars, tables,
                    _join_update_times, _command_queue, _connection_lock, cmd_cur,
                    h_pc, h_data, h_exit, stop_pc, stop_t, loop_blocked, sock, peer_vars,
                    outbuf, now, sys_events, fb_seen, cmd_log, decoded, admitted, n_calls,
                    n_stops, last_call >>

\* lines 264-269: the queue stayed empty for COMMAND_TIMEOUT
_process_command_queue_timeout ==
    /\ ~loop_blocked
    /\ cmd_pc = "get"
    /\ _command_queue = <<>>
    /\ cmd_pc' = "top"
    /\ UNCHANGED << cb_vars, _server, _writer, _available, _command_event, sync_vars, tables,
                    _join_update_times, _command_queue, _connection_lock, cmd_cur,
                    h_pc, h_data, h_exit, stop_pc, stop_t, loop_blocked, sock, peer_vars,
                    outbuf, now, sys_events, fb_seen, cmd_log, decoded, admitted, n_calls,
                    n_stops, last_call >>

\* lines 264-278: a command is taken; skipped when unavailable, else run up to
\* its drain: struct.pack, then self._writer.write
_process_command_queue_get ==
    /\ ~loop_blocked
    /\ cmd_pc = "get"
    /\ _command_queue # <<>>
    /\ _command_queue' = Tail(_command_queue)
    /\ LET cmd == Head(_command_queue)
       IN  IF ~available
           THEN /\ cmd_pc' = "top"
                /\ cmd_log' = [cmd_log EXCEPT !.skipped = @ + 1]
                /\ UNCHANGED << _available, _command_event, sys_events, cmd_cur, outbuf >>
           ELSE IF ~PackOk(CommandHeader(cmd)) \/ _writer = 0
           THEN /\ command_failed
                /\ cmd_log' = [cmd_log EXCEPT !.faults =
                                  Append(@, [w |-> _writer, at |-> "pack"])]
                /\ UNCHANGED outbuf
           ELSE /\ outbuf' = [outbuf EXCEPT ![_writer] =
                                Append(@, Written("command", _writer, CommandBytes(cmd),
                                                   FrameOf(cmd)))]
                /\ cmd_cur' = [cmd EXCEPT !.w = _writer]
                /\ cmd_pc' = "drain"
                /\ cmd_log' = [cmd_log EXCEPT !.exec = Append(@, FrameOf(cmd))]
                /\ UNCHANGED << _available, _command_event, sys_events >>
    /\ UNCHANGED << cb_vars, _server, _writer, sync_vars, tables, _join_update_times,
                    _connection_lock, h_pc, h_data, h_exit, stop_pc, stop_t, loop_blocked, sock,
                    peer_vars, now, fb_seen, decoded, admitted, n_calls, n_stops,
                    last_call >>

\* the drain of the command's write returns (then the state update), or raises
_process_command_queue_drain ==
    /\ ~loop_blocked
    /\ cmd_pc = "drain"
    /\ IF sock[cmd_cur.w] = "closed"
       THEN /\ command_failed
            /\ cmd_log' = [cmd_log EXCEPT !.faults =
                              Append(@, [w |-> cmd_cur.w, at |-> "drain"])]
            /\ UNCHANGED tables
       ELSE /\ CommandStore(cmd_cur)
            /\ cmd_pc' = "top"
            /\ cmd_cur' = NoCommand
            /\ cmd_log' = [cmd_log EXCEPT !.done = @ + 1]
            /\ UNCHANGED << _available, _command_event, sys_events >>
    /\ UNCHANGED << cb_vars, _server, _writer, sync_vars, _join_update_times, _command_queue,
                    _connection_lock, h_pc, h_data, h_exit, stop_pc, stop_t, loop_blocked, sock,
                    peer_vars, outbuf, now, fb_seen, decoded, admitted, n_calls,
                    n_stops, last_call >>


(***************************************************************************)
(* _validate_join and _check_rate_limit.                                   *)
(***************************************************************************)
_validate_join(join, join_type) ==
    CASE join_type = "d" -> 0 < join /\ join <= MAX_DIGITAL_JOIN
      [] join_type = "a" -> 0 < join /\ join <= MAX_ANALOG_JOIN
      [] OTHER -> TRUE

\* defaultdict(list)[join_id]
TimesOf(times, join_id) == IF join_id \in DOMAIN times THEN times[join_id] ELSE <<>>

SetTimes(times, join_id, updates) ==
    [i \in DOMAIN times \cup {join_id} |-> IF i = join_id THEN updates ELSE times[i]]

\* a window that also drops the entry that is exactly JOIN_UPDATE_WINDOW old
RECURSIVE RemoveOldInclusive(_, _)
RemoveOldInclusive(updates, t) ==
    IF updates # <<>> /\ t - Head(updates) >= JOIN_UPDATE_WINDOW
    THEN RemoveOldInclusive(Tail(updates), t)
    ELSE updates

\* lines 137-138: while updates and now - updates[0] > JOIN_UPDATE_WINDOW: pop(0)
RECURSIVE RemoveOld(_, _)
RemoveOld(updates, t) ==
    IF updates # <<>> /\ t - Head(updates) > JOIN_UPDATE_WINDOW
    THEN RemoveOld(Tail(updates), t)
    ELSE updates

\* lines 141-142
WithinLimit(updates) == Len(updates) < MAX_JOIN_UPDATES

\* the value _check_rate_limit returns
_check_rate_limit(join_id) ==
    WithinLimit(RemoveOld(TimesOf(_join_update_times, join_id), now))

\* a check that appends the time of the call before it tests the limit
RateLimitTimesRecording(join_id) ==
    LET updates == RemoveOld(TimesOf(_join_update_times, join_id), now)
    IN  SetTimes(_join_update_times, join_id, Append(updates, now))

\* the list _check_rate_limit leaves behind
RateLimitTimes(join_id) ==
    LET updates == RemoveOld(TimesOf(_join_update_times, join_id), now)
    IN  SetTimes(_join_update_times, join_id,
                 IF WithinLimit(updates) THEN Append(updates, now) ELSE updates)

(***************************************************************************)
(* set_digital, set_analog, set_serial: one call, up to its return.  Every *)
(* exception leaves as ConnectionError (lines 537, 674, 726); cause keeps  *)
(* what was raised inside.                                                 *)
(***************************************************************************)
SetCause(kind, join, value) ==
    IF ~_validate_join(join, kind) THEN "ValueError"
    ELSE IF ~available THEN "unavailable"
    ELSE IF kind = "s" /\ Len(value.s) > MAX_SERIAL_LEN THEN "too_long"
    ELSE IF ~_check_rate_limit(<<kind, join>>) THEN "rate"
    ELSE "none"

set_join(kind, join, value) ==
    /\ ~loop_blocked
    /\ LET cause == SetCause(kind, join, value)
           join_id == <<kind, join>>
       IN  /\ cause = "none" => Len(_command_queue) < MaxQueue
           /\ _join_update_times' =
                 IF cause \in {"none", "rate"} THEN RateLimitTimes(join_id)
                 ELSE _join_update_times
           /\ _command_queue' =
                 IF cause = "none"
                 THEN QueuePut(_command_queue, Command(kind, join, value))
                 ELSE _command_queue
           /\ cmd_log' =
                 IF cause = "none"
                 THEN [cmd_log EXCEPT !.enq = Append(@, FrameOf(Command(kind, join, value)))]
                 ELSE cmd_log
           /\ admitted' =
                 IF cause = "none"
                 THEN SetTimes(admitted, join_id, Append(TimesOf(admitted, join_id), now))
                 ELSE admitted
           /\ last_call' = [op |-> kind, join |-> join, value |-> value, t |-> now,
                            result |-> IF cause = "none" THEN "ok" ELSE "ConnectionError",
                            cause |-> cause,
                            rejects |-> last_call.rejects + (IF cause = "rate" THEN 1 ELSE 0)]
    /\ n_calls' = n_calls + 1
    /\ UNCHANGED << cb_vars, _server, _writer, _available, _command_event, sync_vars, tables,
                    _connection_lock, cmd_vars, h_pc, h_data, h_exit, stop_pc, stop_t,
                    loop_blocked, sock, peer_vars, outbuf, now, sys_events, fb_seen,
                    decoded, n_stops >>

set_digital(join, value) == set_join("d", join, PyBool(value))

set_analog(join, value) == set_join("a", join, PyInt(value))

set_serial(join, string) == set_join("s", join, PyStr(string))


(***************************************************************************)
(* get_digital, get_analog, get_serial: one call, up to its return.  The   *)
(* lookup self._digital[join] on the defaultdict creates a missing entry.  *)
(***************************************************************************)
GetCause(kind, join) ==
    IF ~_validate_join(join, kind) THEN "ValueError"
    ELSE IF ~available THEN "unavailable"
    ELSE "none"

\* the value returned
GetResult(kind, join) ==
    CASE kind = "d" -> IF GetCause(kind, join) # "none" THEN PyBool(FALSE)
                       ELSE PyOr(Lookup(_digital, join).value, PyBool(FALSE))
      [] kind = "a" -> IF GetCause(kind, join) # "none" THEN PyNone
                       ELSE Lookup(_analog, join).value
      [] kind = "s" -> IF GetCause(kind, join) # "none" THEN PyStr(<< >>)
                       ELSE PyOr(Lookup(_serial, join).value, PyStr(<< >>))

get_join(kind, join) ==
    /\ ~loop_blocked
    /\ _digital' = IF kind = "d" /\ GetCause(kind, join) = "none"
                   THEN Touch(_digital, join) ELSE _digital
    /\ _analog' = IF kind = "a" /\ GetCause(kind, join) = "none"
                  THEN Touch(_analog, join) ELSE _analog
    /\ _serial' = IF kind = "s" /\ GetCause(kind, join) = "none"
                  THEN Touch(_serial, join) ELSE _serial
    /\ last_call' = [op |-> "get_" \o kind, join |-> join, value |-> GetResult(kind, join),
                     t |-> now, result |-> "return", cause |-> GetCause(kind, join),
                     rejects |-> last_call.rejects]
    /\ n_calls' = n_calls + 1
    /\ UNCHANGED << cb_vars, _server, _writer, _available, _command_event, sync_vars,
                    _join_update_times, _command_queue, _connection_lock, cmd_vars, h_pc,
                    h_data, h_exit, stop_pc, stop_t, loop_blocked, sock, peer_vars, outbuf,
                    now, sys_events, fb_seen, cmd_log, decoded, admitted, n_stops >>

get_digital(join) == get_join("d", join)

get_analog(join) == get_join("a", join)

get_serial(join) == get_join("s", join)


(***************************************************************************)
(* start() and stop().  stop() holds the threading lock _connection_lock   *)
(* across its awaits; a second acquire from the event loop thread never    *)
(* returns.  Positions of stop(): idle, notified, gathered, closing_writer,*)
(* closing_server, sleep.                                                  *)
(***************************************************************************)
\* lines 147-176
start ==
    /\ ~loop_blocked
    /\ IF _connection_lock
       THEN \* line 150 waits for the lock a suspended stop() holds
            /\ loop_blocked' = TRUE
            /\ UNCHANGED << _server, _connection_lock, _available, _command_event, cmd_pc >>
       ELSE IF _server # "none"
       THEN \* line 153: stop() waits for the lock start() holds
            /\ _connection_lock' = TRUE
            /\ loop_blocked' = TRUE
            /\ UNCHANGED << _server, _available, _command_event, cmd_pc >>
       ELSE /\ _server' = "listening"
            /\ _available' = FALSE
            /\ _command_event' = FALSE
            /\ cmd_pc' = "top"
            /\ UNCHANGED << _connection_lock, loop_blocked >>
    /\ UNCHANGED << cb_vars, _writer, sync_vars, tables, _join_update_times, _command_queue,
                    cmd_cur, h_pc, h_data, h_exit, stop_pc, stop_t, sock, peer_vars, outbuf, now,
                    sys_events, fb_seen, cmd_log, decoded, admitted, n_calls, n_stops, last_call >>

\* lines 225-241: the state is cleared, then asyncio.sleep(1)
stop_clear ==
    /\ _command_queue' = <<>>
    /\ _digital' = EmptyTable
    /\ _analog' = EmptyTable
    /\ _serial' = EmptyTable
    /\ _join_update_times' = << >>
    /\ stop_t' = now
    /\ stop_pc' = "sleep"

\* lines 216-223
stop_close_server ==
    IF _server # "none"
    THEN /\ _server' = "closed"
         /\ stop_pc' = "closing_server"
         /\ UNCHANGED << _command_queue, tables, _join_update_times, stop_t >>
    ELSE /\ stop_clear
         /\ UNCHANGED _server

\* lines 185-190
stop_begin ==
    /\ ~loop_blocked
    /\ n_stops' = n_stops + 1
    /\ IF _connection_lock
       THEN /\ loop_blocked' = TRUE
            /\ UNCHANGED << _connection_lock, _available, _command_event, sys_events,
                            stop_pc >>
       ELSE /\ _connection_lock' = TRUE
            /\ _available' = FALSE
            /\ _command_event' = FALSE
            /\ sys_events' = [sys_events EXCEPT !.stop = @ + 1]
            /\ stop_pc' = "notified"
            /\ UNCHANGED loop_blocked
    /\ UNCHANGED << cb_vars, _server, _writer, sync_vars, tables, _join_update_times,
                    _command_queue, cmd_vars, h_pc, h_data, h_exit, stop_t, sock, peer_vars,
                    outbuf, now, fb_seen, cmd_log, decoded, admitted, n_calls, last_call >>

\* lines 193-205: the command task is cancelled and awaited
stop_cancel ==
    /\ ~loop_blocked
    /\ stop_pc = "notified"
    /\ cmd_pc' = IF cmd_pc = "none" THEN "none" ELSE "done"
    /\ cmd_cur' = NoCommand
    /\ stop_pc' = "gathered"
    /\ UNCHANGED << cb_vars, _server, _writer, _available, _command_event, sync_vars, tables,
                    _join_update_times, _command_queue, _connection_lock, h_pc, h_data, h_exit,
                    stop_t, loop_blocked, sock, peer_vars, outbuf, now, sys_events,
                    fb_seen, cmd_log, decoded, admitted, n_calls, n_stops, last_call >>

\* lines 208-211
stop_close_writer ==
    /\ ~loop_blocked
    /\ stop_pc = "gathered"
    /\ IF _writer # 0
       THEN /\ sock' = [sock EXCEPT ![_writer] = "closed"]
            /\ stop_pc' = "closing_writer"
            /\ UNCHANGED << _server, _command_queue, tables, _join_update_times, stop_t >>
       ELSE /\ stop_close_server
            /\ UNCHANGED sock
    /\ UNCHANGED << cb_vars, _writer, _available, _command_event, sync_vars, _connection_lock,
                    cmd_vars, h_pc, h_data, h_exit, loop_blocked, peer_vars, outbuf, now,
                    sys_events, fb_seen, cmd_log, decoded, admitted, n_calls, n_stops, last_call >>

\* lines 211-220: wait_closed() of the writer has returned
stop_writer_closed ==
    /\ ~loop_blocked
    /\ stop_pc = "closing_writer"
    /\ _writer' = 0
    /\ stop_close_server
    /\ UNCHANGED << cb_vars, _available, _command_event, sync_vars, _connection_lock, cmd_vars,
                    h_pc, h_data, h_exit, loop_blocked, sock, peer_vars, outbuf, now, sys_events,
                    fb_seen, cmd_log, decoded, admitted, n_calls, n_stops, last_call >>

\* lines 220-241: wait_closed() of the listener has returned
stop_server_closed ==
    /\ ~loop_blocked
    /\ stop_pc = "closing_server"
    /\ _server' = "none"
    /\ stop_clear
    /\ UNCHANGED << cb_vars, _writer, _available, _command_event, sync_vars, _connection_lock,
                    cmd_vars, h_pc, h_data, h_exit, loop_blocked, sock, peer_vars, outbuf, now,
                    sys_events, fb_seen, cmd_log, decoded, admitted, n_calls, n_stops, last_call >>

\* lines 241-252: the sleep of one second is over; the lock is released
stop_return ==
    /\ ~loop_blocked
    /\ stop_pc = "sleep"
    /\ now - stop_t > JOIN_UPDATE_WINDOW
    /\ _writer' = 0
    /\ _server' = "none"
    /\ _connection_lock' = FALSE
    /\ stop_pc' = "idle"
    /\ UNCHANGED << cb_vars, _available, _command_event, sync_vars, tables, _join_update_times,
                    _command_queue, cmd_vars, h_pc, h_data, h_exit, stop_t, loop_blocked, sock,
                    peer_vars, outbuf, now, sys_events, fb_seen, cmd_log, decoded, admitted,
                    n_calls, n_stops, last_call >>

(***************************************************************************)
(* The environment: the control system on the other end of a connection,   *)
(* and the clock.  The peer's frames follow the XSIG wire format.          *)
(***************************************************************************)
WireDigital(join, value) ==
    << 128 + (IF value THEN 0 ELSE 32) + ((join - 1) \div 128), (join - 1) % 128 >>

WireAnalog(join, value) ==
    << 192 + 16 * (value \div 16384) + ((join - 1) \div 128), (join - 1) % 128,
       (value \div 128) % 128, value % 128 >>

WireSerial(join, string) ==
    << 200 + ((join - 1) \div 128), (join - 1) % 128 >> \o Utf8Encode(string) \o << 255 >>

DigitalFrame(join, value) ==
    [k |-> "d", j |-> join, v |-> PyBool(value), bytes |-> WireDigital(join, value)]

AnalogFrame(join, value) ==
    [k |-> "a", j |-> join, v |-> PyInt(value), bytes |-> WireAnalog(join, value)]

SerialFrame(join, string) ==
    [k |-> "s", j |-> join, v |-> PyStr(string), bytes |-> WireSerial(join, string)]

\* a control byte, or bytes that are no frame
Raw(bytes) == [k |-> "raw", j |-> 0, v |-> PyBool(FALSE), bytes |-> bytes]

peer_send(c, item) ==
    /\ sock[c] = "open"
    /\ ~peer_closed[c]
    /\ n_items' = [n_items EXCEPT ![c] = @ + 1]
    /\ inbuf' = [inbuf EXCEPT ![c] = @ \o item.bytes]
    /\ sent' = IF item.k = "raw" THEN sent
               ELSE [sent EXCEPT ![c] = Append(@, [k |-> item.k, j |-> item.j, v |-> item.v])]
    /\ UNCHANGED << cb_vars, _server, _writer, _available, _command_event, sync_vars, tables,
                    _join_update_times, _command_queue, _connection_lock, cmd_vars, h_pc,
                    h_data, h_exit, stop_pc, stop_t, loop_blocked, sock, peer_closed, outbuf, now,
                    sys_events, fb_seen, cmd_log, decoded, admitted, n_calls, n_stops, last_call >>

peer_close(c) ==
    /\ sock[c] # "none"
    /\ ~peer_closed[c]
    /\ peer_closed' = [peer_closed EXCEPT ![c] = TRUE]
    /\ UNCHANGED << cb_vars, _server, _writer, _available, _command_event, sync_vars, tables,
                    _join_update_times, _command_queue, _connection_lock, cmd_vars, h_pc,
                    h_data, h_exit, stop_pc, stop_t, loop_blocked, sock, inbuf, sent, n_items,
                    outbuf, now, sys_events, fb_seen, cmd_log, decoded, admitted, n_calls,
                    n_stops, last_call >>

Tick ==
    /\ now' = now + 1
    /\ UNCHANGED << cb_vars, _server, _writer, _available, _command_event, sync_vars, tables,
                    _join_update_times, _command_queue, _connection_lock, cmd_vars, h_pc,
                    h_data, h_exit, stop_pc, stop_t, loop_blocked, sock, peer_vars, outbuf,
                    sys_events, fb_seen, cmd_log, decoded, admitted, n_calls, n_stops, last_call >>

(***************************************************************************)
(* The state after CrestronServer.__init__ (lines 52-92).                  *)
(***************************************************************************)
Init ==
    /\ _server = "none"
    /\ _writer = 0
    /\ _available = FALSE
    /\ _command_event = FALSE
    /\ _initial_sync_received = FALSE
    /\ _last_sync_request = 0
    /\ _digital = EmptyTable
    /\ _analog = EmptyTable
    /\ _serial = EmptyTable
    /\ _join_update_times = << >>
    /\ _command_queue = << >>
    /\ _connection_lock = FALSE
    /\ cmd_pc = "none"
    /\ cmd_cur = NoCommand
    /\ h_pc = [c \in Conns |-> "idle"]
    /\ h_data = [c \in Conns |-> << >>]
    /\ h_exit = [c \in Conns |-> "none"]
    /\ stop_pc = "idle"
    /\ stop_t = 0
    /\ loop_blocked = FALSE
    /\ sock = [c \in Conns |-> "none"]
    /\ inbuf = [c \in Conns |-> << >>]
    /\ peer_closed = [c \in Conns |-> FALSE]
    /\ outbuf = [c \in Conns |-> << >>]
    /\ now = Epoch
    /\ sys_events = [conn |-> [c \in Conns |-> << >>], cmd |-> 0, stop |-> 0]
    /\ fb_seen = [c \in Conns |-> 0]
    /\ cmd_log = [enq |-> << >>, exec |-> << >>, skipped |-> 0, faults |-> << >>, done |-> 0]
    /\ sent = [c \in Conns |-> << >>]
    /\ decoded = [c \in Conns |-> << >>]
    /\ admitted = << >>
    /\ n_items = [c \in Conns |-> 0]
    /\ n_calls = 0
    /\ n_stops = 0
    /\ last_call = [op |-> "none", join |-> 0, value |-> PyBool(FALSE), t |-> 0,
                    result |-> "none", cause |-> "none", rejects |-> 0]
    /\ _join_callbacks = << >>
    /\ _callback_lock = FALSE
    /\ _sync_all_joins_callback = FALSE
    /\ notes = << >>
    /\ cb_tasks = << >>
    /\ hook_calls = [c \in Conns |-> 0]

handle_connection(c) ==
    \/ handle_connection_accept(c)
    \/ handle_connection_drain0(c)
    \/ handle_connection_read(c)
    \/ handle_connection_followup(c)
    \/ handle_connection_read2(c)
    \/ handle_connection_read_analog(c)
    \/ handle_connection_read_serial(c)
    \/ _notify_callbacks_return(c)
    \/ handle_connection_cleanup(c)
    \/ handle_connection_closed(c)

_process_command_queue ==
    \/ _process_command_queue_top
    \/ _process_command_queue_wake
    \/ _process_command_queue_timeout
    \/ _process_command_queue_get
    \/ _process_command_queue_drain

stop ==
    \/ stop_begin
    \/ stop_cancel
    \/ stop_close_writer
    \/ stop_writer_closed
    \/ stop_server_closed
    \/ stop_return

(***************************************************************************)
(* Spec: the connection lifecycle.  Two connections, sync bytes and        *)
(* digital frames from the peer, set_digital calls.                        *)
(***************************************************************************)
LifecycleItems == { Raw(<<SYNC_ALL>>), DigitalFrame(1, TRUE) }

\* the connections the peer opens
LifecycleConns == 1..2

Next ==
    \/ _server = "none" /\ start
    \/ \E c \in LifecycleConns : handle_connection_accept(c)
    \/ \E c \in LifecycleConns : handle_connection_drain0(c)
    \/ \E c \in LifecycleConns : handle_connection_read(c)
    \/ \E c \in LifecycleConns : handle_connection_followup(c)
    \/ \E c \in LifecycleConns : handle_connection_read2(c)
    \/ \E c \in LifecycleConns : handle_connection_cleanup(c)
    \/ \E c \in LifecycleConns : handle_connection_closed(c)
    \/ _process_command_queue
    \/ \E c \in LifecycleConns : \E item \in LifecycleItems :
          n_items[c] < MaxItems /\ peer_send(c, item)
    \/ \E c \in LifecycleConns : peer_close(c)
    \/ n_calls < MaxCalls /\ set_digital(1, TRUE)

Spec == Init /\ [][Next]_vars


(***************************************************************************)
(* Claims on the connection lifecycle.                                     *)
(***************************************************************************)
RECURSIVE CountOf(_, _)
CountOf(seq, x) ==
    IF seq = << >> THEN 0
    ELSE (IF Head(seq) = x THEN 1 ELSE 0) + CountOf(Tail(seq), x)

TablesEmpty == _digital = EmptyTable /\ _analog = EmptyTable /\ _serial = EmptyTable

\* the connection accepted last, 0 when none was accepted
Newest == IF \A c \in Conns : h_pc[c] = "idle" THEN 0
          ELSE CHOOSE c \in Conns : h_pc[c] # "idle" /\ \A b \in Conns : b > c => h_pc[b] = "idle"

\* C1: available is true only if the connection accepted last has received
\* its first 0xFB, that is only if _initial_sync_received is true; also when
\* that connection was accepted while an earlier, synced one was still open.
C1_AvailableOnlyAfterSync ==
    available => /\ _initial_sync_received
                 /\ Newest # 0
                 /\ fb_seen[Newest] > 0

\* C2: each accepted connection fires "connected" exactly once, at its first
\* 0xFB (the dispatch and the read of the byte are one step), and no further
\* 0xFB on that connection fires another.
C2_ConnectedOncePerConnection ==
    \A c \in Conns :
        CountOf(sys_events.conn[c], "connected") = (IF fb_seen[c] > 0 THEN 1 ELSE 0)

\* C3: when the read loop of a connection has seen EOF and its handler has
\* finished its cleanup, the handler has dispatched "disconnected" exactly
\* once, and the server is unavailable unless a later connection exists.
C3_DisconnectedOnceOnEof ==
    \A c \in Conns :
        (h_pc[c] = "done" /\ h_exit[c] = "eof") =>
            /\ CountOf(sys_events.conn[c], "disconnected") = 1
            /\ (Newest = c => ~available)

\* C4: when the read loop of a connection has seen EOF and its handler has
\* finished, the three tables are empty as long as no later connection has
\* been accepted.
C4_TablesClearedOnEof ==
    \A c \in Conns :
        (h_pc[c] = "done" /\ h_exit[c] = "eof" /\ Newest = c) => TablesEmpty

\* C9: at most one connection is live: two transports are never open at once.
C9_SingleLiveConnection ==
    \A a, b \in Conns : (sock[a] = "open" /\ sock[b] = "open") => a = b

\* C10: every command frame is written to a connection whose handler has
\* already received that connection's first 0xFB.
C10_CommandsOnlyAfterHandshake ==
    \A c \in Conns : \A i \in 1..Len(outbuf[c]) :
        outbuf[c][i].by = "command" => outbuf[c][i].synced


(***************************************************************************)
(* SpecCodec: outbound frames.  One connection completes its handshake;    *)
(* set_digital and set_analog are called with joins on both sides of the   *)
(* widths of the frame header, and the consumer executes the commands.     *)
(***************************************************************************)
CodecDigitalJoins == { 1, 128, 129, 4096, 4097, 32769, MAX_DIGITAL_JOIN }

CodecAnalogJoins == { 1, 128, 1024, 1025, MAX_ANALOG_JOIN }

CodecAnalogValues == { 0, 1000, 16383, 16384, 65535 }

NextCodec ==
    \/ _server = "none" /\ start
    \/ handle_connection_accept(1)
    \/ handle_connection_drain0(1)
    \/ handle_connection_read(1)
    \/ handle_connection_followup(1)
    \/ _process_command_queue
    \/ n_items[1] < 1 /\ peer_send(1, Raw(<<SYNC_ALL>>))
    \/ \E n \in CodecDigitalJoins : \E v \in BOOLEAN :
          n_calls < MaxCodecCalls /\ set_digital(n, v)
    \/ \E n \in CodecAnalogJoins : \E v \in CodecAnalogValues :
          n_calls < MaxCodecCalls /\ set_analog(n, v)

SpecCodec == Init /\ [][NextCodec]_vars

\* C5: the two bytes written by the command of set_digital(n, v), n in
\* 1..65535, are taken by the handler's digital branch and decoded back to
\* join n with value v.
C5_DigitalRoundTrip ==
    \A c \in Conns : \A i \in 1..Len(outbuf[c]) :
        LET w == outbuf[c][i]
        IN  (w.by = "command" /\ w.frame.k = "d") =>
                /\ Len(w.bytes) = 2
                /\ FrameKind(w.bytes[1], w.bytes[2]) = "d"
                /\ DecodeDigitalJoin(w.bytes) = w.frame.j
                /\ PyBool(DecodeDigitalValue(w.bytes)) = w.frame.v

\* C6: the four bytes written by the command of set_analog(n, v), n in
\* 1..65535 and v in 0..65535, are recognised by the handler as an analog
\* frame and decoded back to join n with value v.
C6_AnalogRoundTrip ==
    \A c \in Conns : \A i \in 1..Len(outbuf[c]) :
        LET w == outbuf[c][i]
        IN  (w.by = "command" /\ w.frame.k = "a") =>
                /\ Len(w.bytes) = 4
                /\ FrameKind(w.bytes[1], w.bytes[2]) = "a"
                /\ DecodeAnalogJoin(w.bytes) = w.frame.j
                /\ PyInt(DecodeAnalogValue(w.bytes)) = w.frame.v


(***************************************************************************)
(* SpecFrames: inbound frames.  The peer of one connection sends           *)
(* well-formed digital, analog and serial frames back to back, then closes.*)
(***************************************************************************)
InboundFrames ==
    { DigitalFrame(1, TRUE), DigitalFrame(200, FALSE),
      AnalogFrame(1, 1000), AnalogFrame(300, 65535),
      SerialFrame(1, << 65 >>), SerialFrame(2, << 233 >>) }

NextFrames ==
    \/ _server = "none" /\ start
    \/ handle_connection_accept(1)
    \/ handle_connection_drain0(1)
    \/ handle_connection_read(1)
    \/ handle_connection_read2(1)
    \/ handle_connection_read_analog(1)
    \/ handle_connection_read_serial(1)
    \/ handle_connection_cleanup(1)
    \/ handle_connection_closed(1)
    \/ _process_command_queue_top
    \/ \E item \in InboundFrames : n_items[1] < MaxFrames /\ peer_send(1, item)
    \/ peer_close(1)

SpecFrames == Init /\ [][NextFrames]_vars

IsPrefix(s, t) == Len(s) <= Len(t) /\ SubSeq(t, 1, Len(s)) = s

\* C7: for well-formed digital, analog and serial frames sent back to back
\* on one connection, the handler decodes frame by frame what was sent, in
\* the order sent, and when it has finished it has applied one update for
\* every frame sent.
C7_FramesDecodedInOrder ==
    /\ IsPrefix(decoded[1], sent[1])
    /\ h_pc[1] = "done" => decoded[1] = sent[1]


(***************************************************************************)
(* SpecRate: the rate limit.  One connection completes its handshake;      *)
(* from then on set_digital is called on two joins while the clock         *)
(* advances and the consumer empties the queue.                            *)
(***************************************************************************)
NextRate ==
    \/ _server = "none" /\ start
    \/ handle_connection_accept(1)
    \/ handle_connection_drain0(1)
    \/ handle_connection_read(1)
    \/ handle_connection_followup(1)
    \/ _process_command_queue
    \/ n_items[1] < 1 /\ peer_send(1, Raw(<<SYNC_ALL>>))
    \/ available /\ n_calls < MaxRateCalls /\ set_digital(1, TRUE)
    \/ available /\ n_calls < MaxRateCalls /\ set_digital(2, FALSE)
    \/ available /\ now < Epoch + MaxTicks /\ Tick

SpecRate == Init /\ [][NextRate]_vars

\* the join-id of the last set_* call
LastJoinId == << last_call.op, last_call.join >>

\* the times of the calls admitted for that join-id before the last call
AdmittedBefore ==
    LET all == TimesOf(admitted, LastJoinId)
    IN  IF last_call.cause = "none" THEN SubSeq(all, 1, Len(all) - 1) ELSE all

\* how many of them are at most JOIN_UPDATE_WINDOW older than the last call
InWindow ==
    Cardinality({ i \in 1..Len(AdmittedBefore) :
                     last_call.t - AdmittedBefore[i] <= JOIN_UPDATE_WINDOW })

\* C8: a set_* call made while available is admitted exactly when fewer
\* than MAX_JOIN_UPDATES calls for its join-id were admitted within the
\* JOIN_UPDATE_WINDOW before it: the first MAX_JOIN_UPDATES calls of a window
\* are admitted, the next one in that window is rejected, and a call made
\* more than the window after the oldest of them is admitted again.
C8_RateLimitWindow ==
    last_call.cause \in { "none", "rate" } =>
        /\ InWindow < MAX_JOIN_UPDATES => last_call.cause = "none"
        /\ InWindow >= MAX_JOIN_UPDATES => last_call.cause = "rate"

\* a call was rejected by the limit, and a later call for the same join-id,
\* made more than the window after the oldest admitted one, was admitted.
C8_AdmittedAgain ==
    /\ last_call.cause = "none"
    /\ last_call.rejects > 0
    /\ DOMAIN admitted = { LastJoinId }
    /\ Len(admitted[LastJoinId]) = MAX_JOIN_UPDATES + 1
    /\ admitted[LastJoinId][MAX_JOIN_UPDATES] - admitted[LastJoinId][1] <= JOIN_UPDATE_WINDOW
    /\ last_call.t - admitted[LastJoinId][1] > JOIN_UPDATE_WINDOW

(***************************************************************************)
(* Claims on the command consumer.                                         *)
(***************************************************************************)
\* C11: when a queued command has raised during its execution, the socket
\* it was executed on is closed (so that its read loop ends) and listeners
\* have received a "disconnected" event from the consumer.
C11_FaultDisconnects ==
    /\ \A i \in 1..Len(cmd_log.faults) :
          cmd_log.faults[i].w # 0 => sock[cmd_log.faults[i].w] = "closed"
    /\ cmd_log.faults # << >> => sys_events.cmd > 0

\* the commands taken from the queue whose struct.pack raised
PackFaults == Cardinality({ i \in 1..Len(cmd_log.faults) : cmd_log.faults[i].at = "pack" })

\* C12: while the server is not being stopped, every command accepted into
\* the queue is still queued or has been executed (once), and none has been
\* taken from the queue without being executed.
C12_ExecutedOnceNoneDropped ==
    /\ cmd_log.skipped = 0
    /\ Len(cmd_log.enq) = Len(_command_queue) + Len(cmd_log.exec) + PackFaults

\* s can be obtained from t by leaving elements out, keeping the order
RECURSIVE IsSubseq(_, _)
IsSubseq(s, t) ==
    IF s = << >> THEN TRUE
    ELSE IF t = << >> THEN FALSE
    ELSE IF Head(s) = Head(t) THEN IsSubseq(Tail(s), Tail(t))
    ELSE IsSubseq(s, Tail(t))

\* C13: the commands are written in the order they were enqueued, whatever
\* their join types: the sequence of executed commands is the sequence of
\* enqueued commands with the unexecuted ones left out.
C13_ExecutedInEnqueueOrder == IsSubseq(cmd_log.exec, cmd_log.enq)

\* two different commands, a digital and an analog one, were queued
\* together and both have been written, in the order of their enqueue.
C13_TwoKindsInOrder ==
    /\ Len(cmd_log.exec) = 2
    /\ cmd_log.exec = cmd_log.enq
    /\ cmd_log.exec[1].k # cmd_log.exec[2].k
    /\ cmd_log.done = 2

\* the consumer holds _command_lock: it is inside "async with" (lines
\* 276-285), between a command's write and the return of its drain
CommandLockHeld == cmd_pc = "drain"

\* C14: writes to the socket are serialized by the command lock: while the
\* consumer holds it for a command, between that command's write and the
\* completion of its drain, the last write on that socket is the command's
\* own; the handler has not written an update request in between.
C14_WritesUnderCommandLock ==
    CommandLockHeld =>
        outbuf[cmd_cur.w][Len(outbuf[cmd_cur.w])].by = "command"

(***************************************************************************)
(* Claims on the tables and on the calls of the API.                       *)
(***************************************************************************)
\* connection c has decoded one more frame in this step: a frame of kind
\* kind for join n
DecodesFrame(c, kind, n) ==
    /\ Len(decoded'[c]) = Len(decoded[c]) + 1
    /\ decoded'[c][Len(decoded'[c])].k = kind
    /\ decoded'[c][Len(decoded'[c])].j = n

\* C15: set_digital never changes the digital table, neither at the call
\* nor when its command is executed: in every step the state of digital
\* join n changes only if an inbound digital frame for n is processed in
\* that step or the tables are cleared.
C15_DigitalOnlyFromInbound ==
    [][ \A n \in (DOMAIN _digital) \cup (DOMAIN _digital') :
           Lookup(_digital', n) # Lookup(_digital, n) =>
               \/ _digital' = EmptyTable
               \/ \E c \in Conns : DecodesFrame(c, "d", n) ]_vars

\* the command of set_digital(1, TRUE) has been written and drained, and
\* the digital table still has no value for join 1.
C15_SentButNotStored ==
    /\ cmd_log.done = 1
    /\ cmd_log.exec = << [k |-> "d", j |-> 1, v |-> PyBool(TRUE)] >>
    /\ 1 \notin DOMAIN _digital
    /\ available

(***************************************************************************)
(* SpecApi: the calls of the API.  One connection completes its handshake, *)
(* receives an analog frame and may be closed by the peer; set_* and get_* *)
(* are called with joins, values and strings inside and outside their      *)
(* ranges while the consumer executes the commands.                        *)
(***************************************************************************)
\* a join below, inside and above the declared range 1..65535
ApiJoins == { 0, 1, MAX_ANALOG_JOIN + 1 }

ApiAnalogValues == { 1000, 65536 }

\* strings of 1 and 3 one-byte characters, and of 2 two-byte characters
ApiStrings == { << 65 >>, << 65, 66, 67 >>, << 233, 233 >> }

NextApi ==
    \/ _server = "none" /\ start
    \/ handle_connection_accept(1)
    \/ handle_connection_drain0(1)
    \/ handle_connection_read(1)
    \/ handle_connection_followup(1)
    \/ handle_connection_read2(1)
    \/ handle_connection_read_analog(1)
    \/ handle_connection_cleanup(1)
    \/ handle_connection_closed(1)
    \/ _process_command_queue
    \/ n_items[1] < 1 /\ peer_send(1, Raw(<<SYNC_ALL>>))
    \/ n_items[1] = 1 /\ peer_send(1, AnalogFrame(1, 7))
    \/ peer_close(1)
    \/ \E n \in { 0, 1 } : n_calls < MaxApiCalls /\ set_digital(n, TRUE)
    \/ \E n \in ApiJoins : \E v \in ApiAnalogValues :
          n_calls < MaxApiCalls /\ set_analog(n, v)
    \/ \E n \in ApiJoins : \E str \in ApiStrings :
          n_calls < MaxApiCalls /\ set_serial(n, str)
    \/ n_calls < MaxApiCalls /\ get_digital(1)
    \/ n_calls < MaxApiCalls /\ get_analog(1)
    \/ n_calls < MaxApiCalls /\ get_serial(1)

SpecApi == Init /\ [][NextApi]_vars

\* the consumer completes the drain of a command of this kind in this step:
\* the table then holds the command's value, time and one more update
StoresCommand(kind, table, table_next) ==
    (cmd_log'.done # cmd_log.done /\ cmd_cur.k = kind) =>
        Lookup(table_next, cmd_cur.join) =
            [value |-> cmd_cur.value, last_update |-> now,
             update_count |-> Lookup(table, cmd_cur.join).update_count + 1]

\* the consumer completes the drain of an analog or serial command in this step
CompletesCommand(kind, n) ==
    /\ cmd_log'.done = cmd_log.done + 1
    /\ cmd_cur.k = kind
    /\ cmd_cur.join = n

\* in this step the state of join n of the analog (serial) table changes only
\* by its command's completion, by an inbound frame for n, or by a clearing
ChangesOnlyByStore(kind, table, table_next) ==
    \A n \in (DOMAIN table) \cup (DOMAIN table_next) :
        Lookup(table_next, n) # Lookup(table, n) =>
            \/ table_next = EmptyTable
            \/ \E c \in Conns : DecodesFrame(c, kind, n)
            \/ CompletesCommand(kind, n)

\* C16: set_analog and set_serial leave the tables unchanged when the
\* command is enqueued and when its bytes are written; the value is stored
\* in the step in which the drain of the command's write returns; a command
\* whose write fails stores nothing; and a get_analog or get_serial made in
\* between returns what the table held before.
C16_StoredWhenExecuted ==
    [][ /\ cmd_log'.enq # cmd_log.enq => tables' = tables
        /\ cmd_log'.exec # cmd_log.exec => tables' = tables
        /\ cmd_log'.faults # cmd_log.faults => tables' = tables
        /\ StoresCommand("a", _analog, _analog')
        /\ StoresCommand("s", _serial, _serial')
        /\ ChangesOnlyByStore("a", _analog, _analog')
        /\ ChangesOnlyByStore("s", _serial, _serial')
        /\ (last_call' # last_call /\ last_call'.op = "get_a" /\ last_call'.cause = "none") =>
              last_call'.value = Lookup(_analog, last_call'.join).value
        /\ (last_call' # last_call /\ last_call'.op = "get_s" /\ last_call'.cause = "none") =>
              last_call'.value = PyOr(Lookup(_serial, last_call'.join).value, PyStr(<< >>))
      ]_vars

\* set_analog(1, 1000) was enqueued, a get_analog(1) made before its
\* execution returned the value held before (that of a fresh JoinState),
\* and the command has since been written and drained and its value stored.
C16_GetBeforeStore ==
    /\ cmd_log.enq = << [k |-> "a", j |-> 1, v |-> PyInt(1000)] >>
    /\ cmd_log.done = 1
    /\ last_call.op = "get_a"
    /\ last_call.cause = "none"
    /\ last_call.value = PyBool(FALSE)
    /\ Lookup(_analog, 1).value = PyInt(1000)

\* C17: a get_* called while available is false returns the zero value of
\* its type: get_digital false, get_analog 0, get_serial the empty string,
\* whatever the tables hold.
C17_ZeroValueWhenUnavailable ==
    last_call.cause = "unavailable" =>
        /\ last_call.op = "get_d" => last_call.value = PyBool(FALSE)
        /\ last_call.op = "get_a" => last_call.value = PyInt(0)
        /\ last_call.op = "get_s" => last_call.value = PyStr(<< >>)

\* the set_* call recorded in last_call has a join or, for set_analog, a
\* value outside the declared range
LastCallOutOfRange ==
    /\ last_call.op \in { "d", "a", "s" }
    /\ \/ last_call.join < 1
       \/ last_call.join > MAX_DIGITAL_JOIN
       \/ last_call.op = "a" /\ (last_call.value.n < 0 \/ last_call.value.n > 65535)

\* C18: a set_* call with a join outside 1..65535, or a set_analog call with
\* a value outside 0..65535, is rejected before any I/O: the call fails and
\* no command is enqueued for it.
C18_OutOfRangeRejected ==
    LastCallOutOfRange => last_call.result # "ok"

\* C19: set_serial rejects a string for its length exactly when its encoded
\* payload is longer than the cap (252 bytes, here MAX_SERIAL_LEN), so no
\* serial frame with a longer payload between header and terminator is
\* written.
C19_SerialPayloadCapped ==
    /\ (last_call.op = "s" /\ last_call.cause \in { "none", "rate", "too_long" }) =>
          (last_call.cause = "too_long" <=>
              Len(Utf8Encode(last_call.value.s)) > MAX_SERIAL_LEN)
    /\ \A c \in Conns : \A i \in 1..Len(outbuf[c]) :
          (outbuf[c][i].by = "command" /\ outbuf[c][i].frame.k = "s") =>
              Len(outbuf[c][i].bytes) - 3 <= MAX_SERIAL_LEN

\* C20: a failed set_* reports its cause by its error kind; ConnectionError
\* is raised only when the connection is unavailable.
C20_ErrorKindTellsCause ==
    (last_call.op \in { "d", "a", "s" } /\ last_call.result = "ConnectionError") =>
        last_call.cause = "unavailable"

(***************************************************************************)
(* SpecNotify: the dispatch of inbound digital frames to callbacks.  One   *)
(* connection that stays open; callbacks of every behaviour are registered *)
(* for d1 before the connection is accepted, and unregistered while a      *)
(* dispatch waits for its tasks; the clock advances during that wait.      *)
(***************************************************************************)
NotifyCallbacks ==
    { "ok", "raises", "registers", "unregisters", "co_ok", "co_raises", "co_set" }

NotifyItems == { Raw(<<SYNC_ALL>>), DigitalFrame(1, TRUE) }

\* a dispatch is waiting and its timeout has not expired
InDispatch ==
    \E n \in DOMAIN notes :
        notes[n].state = "waiting" /\ now - notes[n].t < MAX_CALLBACK_TIME

NextNotify ==
    \/ _server = "none" /\ start
    \/ handle_connection_accept(1)
    \/ handle_connection_drain0(1)
    \/ handle_connection_read(1)
    \/ handle_connection_followup(1)
    \/ handle_connection_read2(1)
    \/ _notify_callbacks_return(1)
    \/ \E item \in NotifyItems : n_items[1] < MaxItems /\ peer_send(1, item)
    \/ \E cb \in NotifyCallbacks :
          /\ h_pc[1] = "idle"
          /\ Cardinality(CallbacksOf(_join_callbacks, << "d", 1 >>)) < MaxCallbacks
          /\ cb \notin CallbacksOf(_join_callbacks, << "d", 1 >>)
          /\ register_callback(<< "d", 1 >>, cb)
    \/ \E cb \in CallbacksOf(_join_callbacks, << "d", 1 >>) :
          h_pc[1] = "notify" /\ unregister(<< "d", 1 >>, cb)
    \/ \E i \in DOMAIN cb_tasks : callback_start(i)
    \/ \E i \in DOMAIN cb_tasks : callback_finish(i)
    \/ (\E i \in DOMAIN cb_tasks : CallsSet(i)) /\ set_digital(1, TRUE)
    \/ InDispatch /\ Tick

SpecNotify == Init /\ [][NextNotify]_vars

(***************************************************************************)
(* Claims on the dispatch to callbacks.                                    *)
(***************************************************************************)
\* C21: an asynchronous callback that is still running when the dispatch
\* timeout of its notification expires is not cancelled: the task of a
\* notification that timed out is running or has run to completion.
C21_TimedOutCallbackKeepsRunning ==
    \A i \in DOMAIN cb_tasks :
        notes[cb_tasks[i].note].state = "timeout" => cb_tasks[i].state # "cancelled"

\* every task of notification n has had its first step
Started(n) ==
    /\ notes[n].state # "blocked"
    /\ \A i \in TasksOf(n) : cb_tasks[i].state # "pending"

InvokedBy(n) == { notes[n].invoked[k] : k \in DOMAIN notes[n].invoked }

\* the handler of c dispatches a frame in this step, or returns from the wait
\* for the tasks of a dispatch
DispatchStep(c) ==
    \/ Len(notes') > Len(notes) /\ notes'[Len(notes')].by = c
    \/ h_pc[c] = "notify" /\ h_pc'[c] # "notify"

RaisingCallbacks == { "raises", "co_raises" }

\* C22: when a callback, synchronous or asynchronous, raises during the
\* dispatch of an inbound frame, every other callback of that notification is
\* invoked all the same, the step that catches the exception leaves the
\* socket open and available unchanged, the handler goes on to read the next
\* frame, and the raising callback stays registered.
C22_RaisingCallbackIsContained ==
    [][ /\ \A n \in DOMAIN notes' :
              (Started(n)' /\ notes'[n].registered \cap RaisingCallbacks # {})
                 => InvokedBy(n)' = notes'[n].registered
        /\ \A c \in Conns :
              DispatchStep(c) =>
                 /\ sock' = sock
                 /\ _available' = _available
                 /\ h_pc'[c] \in { "read", "notify" }
                 /\ \A id \in DOMAIN _join_callbacks :
                       \A cb \in _join_callbacks[id] \cap RaisingCallbacks :
                          cb \in CallbacksOf(_join_callbacks', id)
      ]_vars

\* a frame was dispatched to a callback that raised and then to another
\* callback, and the next frame was dispatched on the same open connection
\* with the raising callback still registered
C22_FrameAfterRaise ==
    /\ Len(notes) = 2
    /\ notes[1].invoked = << "raises", "ok" >>
    /\ notes[2].invoked = << "raises", "ok" >>
    /\ sock[1] = "open"
    /\ h_pc[1] = "read"
    /\ "raises" \in CallbacksOf(_join_callbacks, << "d", 1 >>)

(***************************************************************************)
(* SpecStream: the byte stream of one connection.  The peer sends sync     *)
(* bytes, digital frames and two bytes that are no header; a sync-all hook *)
(* may be registered; the clock advances.                                  *)
(***************************************************************************)
StreamItems == { Raw(<< SYNC_ALL >>), Raw(<< 0, 0 >>), DigitalFrame(1, TRUE) }

NextStream ==
    \/ _server = "none" /\ start
    \/ handle_connection_accept(1)
    \/ handle_connection_drain0(1)
    \/ handle_connection_read(1)
    \/ handle_connection_followup(1)
    \/ handle_connection_read2(1)
    \/ handle_connection_cleanup(1)
    \/ handle_connection_closed(1)
    \/ \E item \in StreamItems : n_items[1] < MaxFrames /\ peer_send(1, item)
    \/ peer_close(1)
    \/ ~_sync_all_joins_callback /\ register_sync_all_joins_callback
    \/ now < Epoch + MaxTicks /\ Tick

SpecStream == Init /\ [][NextStream]_vars

\* the handler of c is about to read the second byte of a header that is
\* neither digital, analog nor serial
UnknownHeader(c) ==
    /\ h_pc[c] = "read2"
    /\ inbuf[c] # << >>
    /\ FrameKind(h_data[c][1], Head(inbuf[c])) = "none"

\* C23: when the handler has read a two-byte header that matches none of the
\* digital, analog and serial patterns, it stays in its read loop with the
\* socket open and writes the update request 0xFD to the connection.
C23_UnknownHeaderResyncs ==
    [][ \A c \in Conns :
           (UnknownHeader(c) /\ h_pc'[c] # "read2") =>
              /\ h_pc'[c] = "read"
              /\ sock'[c] = sock[c]
              /\ Len(outbuf'[c]) = Len(outbuf[c]) + 1
              /\ outbuf'[c][Len(outbuf'[c])].bytes = << CMD_UPDATE_REQUEST >>
      ]_vars

(***************************************************************************)
(* Claims on the accept of a connection and on later sync bytes, under     *)
(* Spec.                                                                   *)
(***************************************************************************)
NoEntries == DOMAIN _digital = {} /\ DOMAIN _analog = {} /\ DOMAIN _serial = {}

\* the first write to connection c is the handler's update request
UpdateRequested(c) ==
    /\ outbuf[c] # << >>
    /\ outbuf[c][1].by = "handler"
    /\ outbuf[c][1].bytes = << CMD_UPDATE_REQUEST >>

\* C24: the step that accepts a connection leaves all three tables without
\* entries and writes the update request 0xFD as the first bytes of that
\* connection, and no inbound byte of a connection is consumed before that
\* step.
C24_ClearedAndRequestedBeforeFirstByte ==
    [][ \A c \in Conns :
           /\ (h_pc[c] = "idle" /\ h_pc'[c] # "idle") => (NoEntries' /\ UpdateRequested(c)')
           /\ inbuf'[c] # inbuf[c] /\ Len(inbuf'[c]) < Len(inbuf[c])
                 => (h_pc[c] # "idle" /\ UpdateRequested(c))
      ]_vars

\* the second connection has just been accepted after the first one had
\* stored a frame: the tables are empty and 0xFD is written, while bytes of
\* the second connection are waiting unread
C24_SecondAcceptClears ==
    /\ h_pc[2] = "drain0"
    /\ decoded[1] # << >>
    /\ inbuf[2] # << >>
    /\ NoEntries
    /\ UpdateRequested(2)

(***************************************************************************)
(* SpecPresync: frames that arrive before the first 0xFB.  One connection; *)
(* a callback is registered for d1 and for a1 before the accept; the peer  *)
(* sends digital and analog frames and sync bytes in any order; get_* is   *)
(* called at any time.                                                     *)
(***************************************************************************)
PresyncItems ==
    { Raw(<< SYNC_ALL >>), DigitalFrame(1, TRUE), AnalogFrame(1, 0), AnalogFrame(1, 7) }

NextPresync ==
    \/ _server = "none" /\ start
    \/ handle_connection_accept(1)
    \/ handle_connection_drain0(1)
    \/ handle_connection_read(1)
    \/ handle_connection_followup(1)
    \/ handle_connection_read2(1)
    \/ handle_connection_read_analog(1)
    \/ \E item \in PresyncItems : n_items[1] < MaxFrames /\ peer_send(1, item)
    \/ \E kind \in { "d", "a" } :
          /\ h_pc[1] = "idle"
          /\ CallbacksOf(_join_callbacks, << kind, 1 >>) = {}
          /\ register_callback(<< kind, 1 >>, "ok")
    \/ n_calls < MaxApiCalls /\ get_digital(1)
    \/ n_calls < MaxApiCalls /\ get_analog(1)

SpecPresync == Init /\ [][NextPresync]_vars

\* of three tables, the one for joins of this kind
TableFor(kind, digital, analog, serial) ==
    CASE kind = "d" -> digital
      [] kind = "a" -> analog
      [] kind = "s" -> serial

\* the handler of c completes the decoding of a frame in this step, before
\* it has read a 0xFB
DecodesBeforeSync(c) ==
    /\ fb_seen[c] = 0
    /\ Len(decoded'[c]) = Len(decoded[c]) + 1

\* C25: a well-formed frame decoded before the connection's first 0xFB is
\* stored in its table and dispatched to the callbacks registered for its
\* join-id; reading a 0xFB leaves the tables as they are, and a get_digital
\* or get_analog call that finds the server available returns the value the
\* table holds.
C25_PresyncFramesStoredAndDispatched ==
    [][ /\ \A c \in Conns :
              DecodesBeforeSync(c) =>
                 LET f == decoded'[c][Len(decoded'[c])]
                 IN  /\ PyEq(Lookup(TableFor(f.k, _digital', _analog', _serial'), f.j).value,
                             f.v)
                     /\ CallbacksOf(_join_callbacks, << f.k, f.j >>) # {}
                           => /\ Len(notes') = Len(notes) + 1
                              /\ notes'[Len(notes')].join_id = << f.k, f.j >>
                              /\ notes'[Len(notes')].value = Notified(f.v)
        /\ \A c \in Conns : fb_seen'[c] # fb_seen[c] => tables' = tables
        /\ (n_calls' = n_calls + 1 /\ last_call'.cause = "none") =>
              /\ last_call'.op = "get_d" =>
                    last_call'.value = PyOr(Lookup(_digital, last_call'.join).value,
                                            PyBool(FALSE))
              /\ last_call'.op = "get_a" =>
                    last_call'.value = Lookup(_analog, last_call'.join).value
      ]_vars

(***************************************************************************)
(* SpecStop: stop() and a restart.  The server is started, the peer opens  *)
(* connections 1 and 2, stop() is called MaxStops times, one call after    *)
(* the other, start() is called again and the peer opens connection 3.     *)
(* Scheduling: a handler whose socket stop() has closed reads its EOF and  *)
(* runs to its end while stop() sleeps for its second.                     *)
(***************************************************************************)
StopItems == { Raw(<< SYNC_ALL >>), DigitalFrame(1, TRUE) }

\* every handler whose socket is closed has finished
ClosedHandlersDone == \A c \in Conns : sock[c] = "closed" => h_pc[c] = "done"

NextStop ==
    \/ /\ stop_pc = "idle"
       /\ _server = "none"
       /\ n_stops \in { 0, MaxStops }
       /\ start
    \/ \E c \in 1..2 : n_stops = 0 /\ handle_connection_accept(c)
    \/ n_stops = MaxStops /\ handle_connection_accept(3)
    \/ \E c \in Conns : handle_connection_drain0(c)
    \/ \E c \in Conns : handle_connection_read(c)
    \/ \E c \in Conns : handle_connection_followup(c)
    \/ \E c \in Conns : handle_connection_read2(c)
    \/ \E c \in Conns : handle_connection_cleanup(c)
    \/ \E c \in Conns : handle_connection_closed(c)
    \/ _process_command_queue_top
    \/ _process_command_queue_wake
    \/ _process_command_queue_timeout
    \/ \E c \in Conns : \E item \in StopItems :
          n_items[c] < MaxStopItems /\ peer_send(c, item)
    \/ \E c \in Conns : peer_close(c)
    \/ stop_pc = "idle" /\ n_stops < MaxStops /\ stop_begin
    \/ stop_cancel
    \/ stop_close_writer
    \/ stop_writer_closed
    \/ stop_server_closed
    \/ ClosedHandlersDone /\ stop_return
    \/ stop_pc = "sleep" /\ now - stop_t <= JOIN_UPDATE_WINDOW /\ Tick

SpecStop == Init /\ [][NextStop]_vars

\* C26: stop() called twice in succession completes both times, the event
\* loop is never left blocked, and after the start() that follows, the
\* connection the server accepts makes the server available with its first
\* 0xFB.
C26_AvailableAfterStopStopStart ==
    [][ /\ ~loop_blocked'
        /\ ( /\ n_stops = MaxStops
             /\ stop_pc = "idle"
             /\ fb_seen[3] = 0
             /\ fb_seen'[3] = 1 ) => available'
      ]_vars

\* stop() has returned and start() has not been called since
Stopped == n_stops > 0 /\ stop_pc = "idle" /\ _server = "none"

\* C27: from the return of stop() to the next start(), the command consumer
\* has terminated, no handler is in its read loop, no inbound frame is
\* applied to the tables and no system event is dispatched by a handler or
\* by the consumer.
C27_QuietAfterStop ==
    [][ Stopped =>
           /\ cmd_pc \in { "none", "done" }
           /\ \A c \in Conns : h_pc[c] \in { "idle", "done" }
           /\ decoded' = decoded
           /\ tables' = tables
           /\ sys_events'.conn = sys_events.conn
           /\ sys_events'.cmd = sys_events.cmd
      ]_vars

(***************************************************************************)
(* SpecLive: reconnection.  The peer opens one connection after another,   *)
(* each only once the handler of the previous one has left its read loop   *)
(* and closed its socket; no stop().  The event loop runs every handler    *)
(* that is ready, so each handler's steps are weakly fair; the peer's      *)
(* sends and closes are not.                                               *)
(***************************************************************************)
\* lines 455-476: the handler of c has left its loop and closed the socket
Ended(c) == h_pc[c] \in { "closing", "done" }

\* one step of the handler task of connection c
HandlerStep(c) ==
    \/ handle_connection_drain0(c)
    \/ handle_connection_read(c)
    \/ handle_connection_followup(c)
    \/ handle_connection_read2(c)
    \/ handle_connection_cleanup(c)
    \/ handle_connection_closed(c)

NextLive ==
    \/ _server = "none" /\ start
    \/ handle_connection_accept(1)
    \/ \E c \in Conns \ { 1 } : Ended(c - 1) /\ handle_connection_accept(c)
    \/ \E c \in Conns : handle_connection_drain0(c)
    \/ \E c \in Conns : handle_connection_read(c)
    \/ \E c \in Conns : handle_connection_followup(c)
    \/ \E c \in Conns : handle_connection_read2(c)
    \/ \E c \in Conns : handle_connection_cleanup(c)
    \/ \E c \in Conns : handle_connection_closed(c)
    \/ \E c \in Conns : \E item \in LifecycleItems :
          n_items[c] < MaxItems /\ peer_send(c, item)
    \/ \E c \in Conns : peer_close(c)

SpecLive ==
    /\ Init
    /\ [][NextLive]_vars
    /\ \A c \in Conns : WF_vars(HandlerStep(c))

\* the handler of c has dispatched "connected"
ConnectedFired(c) ==
    \E i \in 1..Len(sys_events.conn[c]) : sys_events.conn[c][i] = "connected"

\* C28: after a connection has ended, a new connection whose 0xFB has been
\* read leads to the server being available with "connected" dispatched,
\* unless the peer closes that connection first; after every cycle.
C28_AvailableAfterReconnect ==
    \A c \in Conns \ { 1 } :
        ( fb_seen[c] > 0 /\ ~peer_closed[c] )
            ~> ( ( available /\ ConnectedFired(c) ) \/ peer_closed[c] )

\* the handler of c reads a 0xFB in this step, after it has dispatched
\* "connected" for its connection
LaterSyncByte(c) ==
    /\ ConnectedFired(c)
    /\ h_pc[c] = "read"
    /\ fb_seen'[c] = fb_seen[c] + 1

\* C29: a 0xFB read after the connection's initial sync leaves available,
\* _initial_sync_received and the three tables unchanged and makes the
\* handler write no update request; the sync-all hook is invoked once when
\* it is registered and more than DEBOUNCE has passed since the last
\* accepted 0xFB, and not at all otherwise.
C29_LaterSyncByteChangesNothing ==
    [][ \A c \in Conns :
           LaterSyncByte(c) =>
              /\ available' = available
              /\ _initial_sync_received' = _initial_sync_received
              /\ tables' = tables
              /\ outbuf' = outbuf
              /\ h_pc'[c] = "read"
              /\ hook_calls'[c] =
                    hook_calls[c] +
                       ( IF _sync_all_joins_callback /\ now - _last_sync_request > DEBOUNCE
                         THEN 1 ELSE 0 )
      ]_vars

\* C30: a notification that has started has invoked exactly the callbacks
\* that were registered for its join-id when it began, each once, whatever
\* the callbacks did to the registry meanwhile; _callback_lock is free while
\* callbacks run, and no callback that registers, unregisters or awaits
\* set_digital from inside the dispatch blocks the loop.
C30_DispatchUsesSnapshotWithoutLock ==
    /\ ~loop_blocked
    /\ ~_callback_lock
    /\ \A n \in DOMAIN notes :
          /\ notes[n].state # "blocked"
          /\ Started(n) =>
                /\ InvokedBy(n) = notes[n].registered
                /\ Len(notes[n].invoked) = Cardinality(notes[n].registered)

\* a notification went to a callback that registers another and to one that
\* unregisters itself; both returned, and the next notification went to the
\* callbacks the registry held by then
C30_ReentrantCallbacksReturned ==
    /\ Len(notes) = 2
    /\ notes[1].registered = { "registers", "unregisters" }
    /\ notes[1].state = "returned"
    /\ notes[2].registered = { "registers", "late" }
    /\ notes[2].state = "returned"
    /\ CallbacksOf(_join_callbacks, << "d", 1 >>) = { "registers", "late" }
    /\ h_pc[1] = "read"

(***************************************************************************)
(* SpecControl: control bytes on the inbound stream.  The peer of one      *)
(* connection sends the control bytes 0xFD and 0xFC and digital frames,    *)
(* then closes.                                                            *)
(***************************************************************************)
ControlItems ==
    { Raw(<< CMD_UPDATE_REQUEST >>), Raw(<< CMD_CLEAR_OUTPUTS >>),
      DigitalFrame(1, TRUE), DigitalFrame(200, FALSE) }

NextControl ==
    \/ _server = "none" /\ start
    \/ handle_connection_accept(1)
    \/ handle_connection_drain0(1)
    \/ handle_connection_read(1)
    \/ handle_connection_read2(1)
    \/ handle_connection_cleanup(1)
    \/ handle_connection_closed(1)
    \/ \E item \in ControlItems : n_items[1] < MaxFrames /\ peer_send(1, item)
    \/ peer_close(1)

SpecControl == Init /\ [][NextControl]_vars

\* the handler of c has consumed every byte the peer sent
Consumed(c) == inbuf[c] = << >> /\ h_pc[c] \in { "read", "done" }

\* C31: an inbound 0xFD or 0xFC is consumed as a frame of one byte: when the
\* handler has consumed a stream of control bytes and digital frames, it
\* has decoded every frame of the stream, in the order sent.
C31_ControlByteIsOneByteFrame ==
    Consumed(1) => decoded[1] = sent[1]

\* C32: no call of set_digital or set_analog on a join in 1..65535 leads to a
\* command that fails in the consumer: while every socket is healthy no
\* command has faulted, available has not been withdrawn by the consumer
\* and the consumer has dispatched no "disconnected".
C32_NoFaultFromEncoding ==
    (\A c \in Conns : sock[c] # "closed") =>
        /\ cmd_log.faults = << >>
        /\ sys_events.cmd = 0
        /\ (fb_seen[1] > 0 => _available)

\* the handler of c leaves its read loop or runs a step of its cleanup
EndStep(c) ==
    /\ h_pc'[c] # h_pc[c]
    /\ h_pc'[c] \in { "cleanup", "closing", "done" }

\* C33: when the handler of an earlier connection leaves its read loop and
\* cleans up after a newer connection has been accepted, the newer
\* connection's socket stays as it is, it remains the server's writer, and
\* _available and _initial_sync_received keep their values.
C33_CleanupTouchesOwnConnectionOnly ==
    [][ \A c \in Conns :
           (Newest > c /\ EndStep(c)) =>
              /\ sock'[Newest] = sock[Newest]
              /\ _writer' = _writer
              /\ _available' = _available
              /\ _initial_sync_received' = _initial_sync_received
      ]_vars

(***************************************************************************)
(* SpecLock: start() and stop() called at any time.  One connection; the   *)
(* callers do not wait for a running stop() to return, nor for the server  *)
(* to be stopped before they call start().                                 *)
(***************************************************************************)
NextLock ==
    \/ start
    \/ handle_connection_accept(1)
    \/ handle_connection_drain0(1)
    \/ handle_connection_read(1)
    \/ handle_connection_followup(1)
    \/ handle_connection_cleanup(1)
    \/ handle_connection_closed(1)
    \/ _process_command_queue_top
    \/ _process_command_queue_wake
    \/ _process_command_queue_timeout
    \/ n_items[1] < 1 /\ peer_send(1, Raw(<< SYNC_ALL >>))
    \/ peer_close(1)
    \/ n_stops < MaxStops /\ stop_begin
    \/ stop_cancel
    \/ stop_close_writer
    \/ stop_writer_closed
    \/ stop_server_closed
    \/ stop_return
    \/ stop_pc = "sleep" /\ now - stop_t <= JOIN_UPDATE_WINDOW /\ Tick

SpecLock == Init /\ [][NextLock]_vars

\* C34: start() called while the server is started and no stop() is under
\* way does not block the event loop: the step leaves the loop running.
C34_RestartTerminates ==
    [][ (_server # "none" /\ ~_connection_lock /\ start) => ~loop_blocked' ]_vars

\* lines 211, 220 and 241: stop() is suspended in wait_closed() of the
\* writer or of the listener, or in its sleep, inside the with block
StopSuspended == stop_pc \in { "closing_writer", "closing_server", "sleep" }

\* C35: a stop() that begins while an earlier stop() is suspended at one of
\* its awaits, holding _connection_lock, does not block the event loop.
C35_OverlappingStopsTerminate ==
    [][ (StopSuspended /\ _connection_lock /\ stop_begin) => ~loop_blocked' ]_vars

(***************************************************************************)
(* SpecQueue: the command queue across connections.  The peer opens one    *)
(* connection after another, each only when the handler of the previous    *)
(* one has finished; set_digital is called and the consumer runs; no       *)
(* stop().                                                                 *)
(***************************************************************************)
NextQueue ==
    \/ _server = "none" /\ start
    \/ handle_connection_accept(1)
    \/ \E c \in Conns \ { 1 } : h_pc[c - 1] = "done" /\ handle_connection_accept(c)
    \/ \E c \in Conns : handle_connection_drain0(c)
    \/ \E c \in Conns : handle_connection_read(c)
    \/ \E c \in Conns : handle_connection_followup(c)
    \/ \E c \in Conns : handle_connection_cleanup(c)
    \/ \E c \in Conns : handle_connection_closed(c)
    \/ _process_command_queue
    \/ \E c \in Conns : n_items[c] < 1 /\ peer_send(c, Raw(<< SYNC_ALL >>))
    \/ \E c \in Conns : peer_close(c)
    \/ n_calls < MaxQueue /\ set_digital(1, TRUE)

SpecQueue == Init /\ [][NextQueue]_vars

\* the consumer takes a command from the queue and writes its frame
ExecutesHead == cmd_pc = "get" /\ cmd_pc' = "drain"

\* C36: the consumer writes a command to the connection that was current
\* when the command was enqueued, and never writes a command whose
\* connection has ended.
C36_WrittenToOwnConnection ==
    [][ ExecutesHead =>
           /\ cmd_cur'.w = Head(_command_queue).w
           /\ h_pc[Head(_command_queue).w] \notin { "cleanup", "closing", "done" }
      ]_vars

\* the handler of c reads the rest of an analog frame in this step, with
\* bytes of the peer waiting
ReadsAnalogTail(c) ==
    /\ h_pc[c] = "read_analog"
    /\ inbuf[c] # << >>
    /\ h_pc'[c] # "read_analog"

\* C37: however the transport splits an analog frame into reads, the step
\* that reads its third and fourth byte applies the update the peer sent
\* and leaves the connection open.
C37_SplitAnalogFrameApplied ==
    [][ \A c \in Conns :
           ReadsAnalogTail(c) =>
              /\ h_exit'[c] = h_exit[c]
              /\ h_pc'[c] \in { "read", "notify" }
              /\ Len(decoded'[c]) = Len(decoded[c]) + 1
              /\ decoded'[c][Len(decoded'[c])] = sent[c][Len(decoded'[c])]
      ]_vars

(***************************************************************************)
(* SpecEcho: inbound frames that repeat a stored value.  Callbacks are     *)
(* registered for d1, a1 and s1 before the connection; the peer sends sync *)
(* bytes and frames for these joins, whole; set_analog and set_serial are  *)
(* called and the consumer runs.                                           *)
(***************************************************************************)
EchoItems ==
    { Raw(<< SYNC_ALL >>), DigitalFrame(1, TRUE), AnalogFrame(1, 1000),
      SerialFrame(1, << 65 >>) }

EchoJoinIds == { << "d", 1 >>, << "a", 1 >>, << "s", 1 >> }

NextEcho ==
    \/ _server = "none" /\ start
    \/ handle_connection_accept(1)
    \/ handle_connection_drain0(1)
    \/ handle_connection_read(1)
    \/ handle_connection_followup(1)
    \/ handle_connection_read2(1)
    \/ handle_connection_read_analog(1) /\ Len(inbuf'[1]) = Len(inbuf[1]) - 2
    \/ handle_connection_read_serial(1)
    \/ _process_command_queue
    \/ \E item \in EchoItems : n_items[1] < MaxEchoItems /\ peer_send(1, item)
    \/ \E id \in EchoJoinIds :
          /\ h_pc[1] = "idle"
          /\ id \notin DOMAIN _join_callbacks
          /\ register_callback(id, "ok")
    \/ n_calls < MaxCalls /\ set_analog(1, 1000)
    \/ n_calls < MaxCalls /\ set_serial(1, << 65 >>)

SpecEcho == Init /\ [][NextEcho]_vars

\* the handler of c completes the decoding of a frame in this step
DecodesStep(c) == Len(decoded'[c]) = Len(decoded[c]) + 1

\* C38: an inbound digital frame increments the update_count of its join
\* and notifies the callbacks of its join-id whatever the stored value; an
\* inbound analog or serial frame whose value equals the stored one leaves
\* the join's state as it is and notifies nobody, so the echo of a value
\* stored by an executed command is not delivered.
C38_DigitalAlwaysAnalogOnChange ==
    [][ \A c \in Conns :
           DecodesStep(c) =>
              LET f == decoded'[c][Len(decoded'[c])]
                  old == Lookup(TableFor(f.k, _digital, _analog, _serial), f.j)
                  new == Lookup(TableFor(f.k, _digital', _analog', _serial'), f.j)
                  cbs == CallbacksOf(_join_callbacks, << f.k, f.j >>)
                  notified == /\ Len(notes') = Len(notes) + 1
                              /\ notes'[Len(notes')].join_id = << f.k, f.j >>
                              /\ { notes'[Len(notes')].invoked[k] :
                                      k \in DOMAIN notes'[Len(notes')].invoked } = cbs
              IN  IF f.k = "d"
                  THEN /\ new.update_count = old.update_count + 1
                       /\ new.value = f.v
                       /\ cbs # {} => notified
                  ELSE IF PyEq(old.value, f.v)
                  THEN new = old /\ notes' = notes
                  ELSE /\ new.update_count = old.update_count + 1
                       /\ new.value = f.v
                       /\ cbs # {} => notified
      ]_vars

\* set_analog(1, 1000) was executed and stored, the peer's echo a1 = 1000
\* was decoded afterwards and reached no callback, while d1 = 1 was decoded
\* twice and notified twice
C38_EchoNotDelivered ==
    /\ cmd_log.done = 1
    /\ "ok" \in CallbacksOf(_join_callbacks, << "a", 1 >>)
    /\ \E i \in 1..Len(decoded[1]) : decoded[1][i].k = "a"
    /\ Lookup(_analog, 1).value = PyInt(1000)
    /\ Lookup(_analog, 1).update_count = 1
    /\ Lookup(_digital, 1).update_count = 2
    /\ Len(notes) = 2
    /\ \A n \in DOMAIN notes : notes[n].join_id = << "d", 1 >>

\* C39: the first inbound analog frame for a join whose JoinState is fresh,
\* as after the clear of the tables, is stored (the value is held and
\* update_count becomes 1) and notifies the callbacks of its join-id,
\* whatever its value, 0 included.
C39_FirstAnalogFrameStored ==
    [][ \A c \in Conns :
           DecodesStep(c) =>
              LET f == decoded'[c][Len(decoded'[c])]
                  new == Lookup(_analog', f.j)
                  cbs == CallbacksOf(_join_callbacks, << f.k, f.j >>)
              IN  (f.k = "a" /\ Lookup(_analog, f.j) = JoinState) =>
                     /\ PyEq(new.value, f.v)
                     /\ new.update_count = 1
                     /\ cbs # {} =>
                           /\ Len(notes') = Len(notes) + 1
                           /\ notes'[Len(notes')].join_id = << f.k, f.j >>
      ]_vars

(***************************************************************************)
(* SpecReject: the rejections of set_*.  set_digital and set_serial are    *)
(* called with valid and invalid arguments before the handshake, after it, *)
(* and after the peer has closed, while the clock advances and the         *)
(* consumer empties the queue.                                             *)
(***************************************************************************)
NextReject ==
    \/ _server = "none" /\ start
    \/ handle_connection_accept(1)
    \/ handle_connection_drain0(1)
    \/ handle_connection_read(1)
    \/ handle_connection_followup(1)
    \/ handle_connection_cleanup(1)
    \/ handle_connection_closed(1)
    \/ _process_command_queue
    \/ n_items[1] < 1 /\ peer_send(1, Raw(<<SYNC_ALL>>))
    \/ n_calls >= 1 /\ peer_close(1)
    \/ n_calls < MaxRateCalls /\ set_digital(1, TRUE)
    \/ n_calls < MaxRateCalls /\ set_digital(0, TRUE)
    \/ n_calls < MaxRateCalls /\ set_serial(1, << 65, 66, 67 >>)
    \/ available /\ now < Epoch + MaxTicks /\ Tick

SpecReject == Init /\ [][NextReject]_vars

\* a set_* call that raised
Rejected ==
    /\ n_calls' = n_calls + 1
    /\ last_call'.op \in { "d", "a", "s" }
    /\ last_call'.result = "ConnectionError"

\* the admitted calls of a join-id that are still inside the window at time t
StillInWindow(join_id, t) ==
    { i \in 1..Len(TimesOf(admitted, join_id)) :
         t - TimesOf(admitted, join_id)[i] <= JOIN_UPDATE_WINDOW }

\* C40: a set_* call that is rejected, whatever the cause, leaves the command
\* queue, the rate-limit timestamps, the three tables and the availability as
\* they were; and a call is rejected by the rate limit only when
\* MAX_JOIN_UPDATES admitted calls of its join-id lie inside the window, so
\* rejected attempts never delay the reopening of the window.
C40_RejectedCallChangesNothing ==
    [][ Rejected =>
           /\ _command_queue' = _command_queue
           /\ _join_update_times' = _join_update_times
           /\ tables' = tables
           /\ available' = available
           /\ last_call'.cause = "rate" =>
                 Cardinality(StillInWindow(<< last_call'.op, last_call'.join >>, now))
                    >= MAX_JOIN_UPDATES
      ]_vars

\* a call of d1 admitted after a rejection by the rate limit, while one of the
\* earlier admitted calls is still inside the window
C40_AdmittedAfterRateRejection ==
    /\ last_call.rejects >= 1
    /\ last_call.result = "ok"
    /\ last_call.op = "d"
    /\ Cardinality(StillInWindow(<< "d", 1 >>, last_call.t)) = MAX_JOIN_UPDATES
    /\ Len(TimesOf(admitted, << "d", 1 >>)) = MAX_JOIN_UPDATES + 1

====
